---- MODULE Spec2Model ----
(***************************************************************************)
(* Persistence & Alert Engine of the child-presence monitor                *)
(* (FINALEVERYTHING2/FINALEVERYTHING2.ino).                                *)
(*                                                                         *)
(* Temperatures are integers in tenths of a degree Celsius (the AM2302     *)
(* reports tenths).  The grids below only hold multiples of half a degree: *)
(* for those every float operation of the threshold calculation is exact,  *)
(* so the integer arithmetic used here gives the same truncated results.   *)
(* Times are milliseconds.  millis() is kept relative to a sliding origin: *)
(* once the clock would pass MaxTime the origin moves forward and every    *)
(* stored timestamp moves back with it (clamped at 0), which preserves all *)
(* differences the code compares against its intervals.                    *)
(***************************************************************************)
EXTENDS Integers, Sequences, FiniteSets, TLC

\* ------------------------------------------------------------------ bounds
MaxTime == 6500
MaxLag == 500
TempLo == 150
TempHi == 400
IdleCycles == 8

\* ------------------------------------------------------- program constants
COUNTER_UPDATE_INTERVAL == 6000
PIR_DETECTION_WINDOW == 5500
MAX_PERSISTENCE_COUNTER == 20
MIN_COUNTER_FOR_ALERT == 1
BASE_SLOW_BLINK_COUNTER == 5
BASE_MEDIUM_BLINK_COUNTER == 8
BASE_FAST_BLINK_COUNTER == 12
BASE_CRITICAL_BLINK_COUNTER == 16
BASE_STOP_COUNTER == 5
COMFORTABLE_TEMP == 220
HOT_TEMP_THRESHOLD == 300
CRITICAL_TEMP_THRESHOLD == 350
INITIAL_STOP_THRESHOLD == 5
INITIAL_TEMPERATURE == 250
INITIAL_HUMIDITY == 500
ALERT_QUEUE_LENGTH == 10
MOTION_QUEUE_LENGTH == 10
TEMPERATURE_QUEUE_LENGTH == 5
NO_WAIT == 0
SLOW_BLINK_INTERVAL == 1000
MEDIUM_BLINK_INTERVAL == 500
FAST_BLINK_INTERVAL == 200
CRITICAL_BLINK_INTERVAL == 100
INT32_MAX == 2147483647
\* The wait without end; only its being the largest tick count is used.
portMAX_DELAY == INT32_MAX

\* The queues setup() creates.
QueueNames == {"motionQueue", "alertQueue", "temperatureQueue"}

\* Elapsed times by which the environment lets the clock advance in one step.
Delays == {500, 5500}

\* Sensor samples offered to the running system, and the grid for the
\* threshold calculator on its own: the readings of the sensor, in tenths of
\* a degree.
TempSamples == {250, 350}
TempGrid == TempLo..TempHi

\* Humidity the sensor reports along with each of its temperatures (tenths of
\* a percent), and the samples it delivers.
SampleHumidity(t) == IF t >= HOT_TEMP_THRESHOLD THEN 300 ELSE 400
SensorSamples ==
    {[temperature |-> t, humidity |-> SampleHumidity(t)] : t \in TempSamples}

VARIABLES
    now,                        \* millis()
    pirTriggered,
    stopButtonPressed,
    lastPirTrigger,
    motionPersistenceCounter,
    lastCounterUpdate,
    alertSystemStopped,
    currentTemperature,
    ALERT_STOP_THRESHOLD,
    thresholds,                 \* frame of the latest threshold calculation
    motionPc,                   \* position of motionDetectionTask in its loop
    currentTime,                \* local of motionDetectionTask
    lastBlinkRate,              \* local of motionDetectionTask
    alertQueue,
    \* Observers of the motion interrupt (written by no code):
    pirUnserved,                \* a firing made in ACTIVE mode is not yet counted
    pirCoalesced,               \* the latest batch of firings held more than one
    pirWait,                    \* engine cycles ended since the oldest such firing
    stoppedThisCycle,           \* observer: a stop was honored in the cycle begun last
    \* temperatureTask and its queue to displayTask:
    currentHumidity,
    temperatureDataValid,
    temperatureQueue,
    tempPc,                     \* position of temperatureTask in its loop
    tempData,                   \* local of temperatureTask
    \* motionDetectionTask's report phase and its queue to displayTask:
    motionQueue,
    currentBlinkRate,           \* local of motionDetectionTask
    motionActive,               \* local of motionDetectionTask
    \* alertLedTask:
    ledState,
    blinkingActive,
    currentInterval,
    lastBlinkTime,
    alertLedPin,                \* level last written to ALERT_LED_PIN
    queuesAllocated             \* queue |-> xQueueCreate gave a handle for it

vars == <<now, pirTriggered, stopButtonPressed, lastPirTrigger,
          motionPersistenceCounter, lastCounterUpdate, alertSystemStopped,
          currentTemperature, ALERT_STOP_THRESHOLD, thresholds, motionPc,
          currentTime, lastBlinkRate, alertQueue, pirUnserved, pirCoalesced,
          pirWait, stoppedThisCycle, currentHumidity, temperatureDataValid,
          temperatureQueue, tempPc, tempData, motionQueue, currentBlinkRate,
          motionActive, ledState, blinkingActive, currentInterval,
          lastBlinkTime, alertLedPin,
          queuesAllocated>>

observers == <<pirUnserved, pirCoalesced, pirWait>>

\* What temperatureTask owns besides currentTemperature.
sampling == <<currentHumidity, temperatureDataValid, temperatureQueue, tempPc,
              tempData>>

\* What the report phase of motionDetectionTask owns.
reporting == <<motionQueue, currentBlinkRate, motionActive>>

\* What alertLedTask owns, its timestamp apart.
led == <<ledState, blinkingActive, currentInterval, alertLedPin>>

Max(a, b) == IF a > b THEN a ELSE b
Min(a, b) == IF a < b THEN a ELSE b

\* ------------------------------------------------------ uint32 arithmetic
\* a - b on uint32_t operands.  The result is kept as the signed integer
\* with the same 32 bits: a negative d stands for the wrapped value 2^32 + d.
Sub32(a, b) == a - b

\* Unsigned comparison  d >= k  of such a value with a constant 0 <= k <= INT32_MAX.
GeU32(d, k) ==
    IF d >= 0 THEN d >= k
    ELSE (d + INT32_MAX) + 2 >= k - INT32_MAX

\* ------------------------------------------------- float (IEEE-754 single)
\* A float is held as a whole number of units, the unit a negative power of
\* two fine enough for every value of the calculation: 2^-21 degrees for
\* temperatures (exact for floats of 4 and more), 2^-25 for the factor.
TempUnit == 2^21
FactorUnit == 2^25

\* The spacing of the floats around x units: the least power of two q that
\* leaves x \div q a 24-bit significand.
Quantum(x) ==
    CHOOSE q \in {2^e : e \in 0..7} :
        /\ x \div q < 2^24
        /\ q > 1 => x \div (q \div 2) >= 2^24

\* n / d units (n >= 0, d > 0) rounded to the nearest float, ties to even.
FloatOfRatio(n, d) ==
    LET q == Quantum(n \div d)
        k == n \div (d * q)
        r == n - k * (d * q)
    IN  IF 2 * r < d * q THEN k * q
        ELSE IF 2 * r > d * q THEN (k + 1) * q
        ELSE IF k % 2 = 0 THEN k * q
        ELSE (k + 1) * q

\* The result of a float operation whose exact value is x units.
RoundFloat(x) == FloatOfRatio(x, 1)

\* The float nearest to a temperature given in tenths of a degree: what a
\* float variable holds for a reading of the sensor (resolution 0.1 C) and
\* for the constants 22.0, 30.0 and 35.0.
ToFloat(tenths) == FloatOfRatio(tenths * TempUnit, 10)

\* -------------------------------------------------- Threshold Calculator
\* adjustmentFactor, a float in units of 2^-25, with the outcome of the
\* first test given.  1.0 - (tempDiff / maxTempDiff) * 0.5 is evaluated in
\* double, where the product and the difference are exact, and rounded to
\* float by the assignment; 0.3 is rounded to float the same way.
FactorFor(temperature, critical) ==
    LET t == ToFloat(temperature)
    IN  [num |->
            IF critical THEN FloatOfRatio(3 * FactorUnit, 10)
            ELSE IF t >= ToFloat(HOT_TEMP_THRESHOLD) THEN FactorUnit \div 2
            ELSE IF t > ToFloat(COMFORTABLE_TEMP) THEN
                LET tempDiff == RoundFloat(t - ToFloat(COMFORTABLE_TEMP))
                    maxTempDiff == RoundFloat(ToFloat(HOT_TEMP_THRESHOLD)
                                              - ToFloat(COMFORTABLE_TEMP))
                    \* tempDiff / maxTempDiff in units of 2^-24, so that
                    \* times 0.5 it is the same number of units of 2^-25
                    ratio == FloatOfRatio(tempDiff * 8, maxTempDiff \div TempUnit)
                IN  RoundFloat(FactorUnit - ratio)
            ELSE FactorUnit,
         den |-> FactorUnit]

\* Mutant: in the warm zone the interpolation is added instead of subtracted.
AdjustmentFactorWarmRaises(temperature) ==
    LET t == ToFloat(temperature)
        f == FactorFor(temperature, t >= ToFloat(CRITICAL_TEMP_THRESHOLD))
    IN  IF t > ToFloat(COMFORTABLE_TEMP) /\ t < ToFloat(HOT_TEMP_THRESHOLD)
        THEN [num |-> RoundFloat(FactorUnit + (FactorUnit - f.num)),
              den |-> FactorUnit]
        ELSE f

\* Mutant: the critical zone starts above 35 degrees instead of at it.
AdjustmentFactorStrict(temperature) ==
    FactorFor(temperature,
              ToFloat(temperature) > ToFloat(CRITICAL_TEMP_THRESHOLD))

\* if (temperature >= CRITICAL_TEMP_THRESHOLD) ... else ...
AdjustmentFactor(temperature) ==
    FactorFor(temperature,
              ToFloat(temperature) >= ToFloat(CRITICAL_TEMP_THRESHOLD))

\* (uint8_t)(base * adjustmentFactor): the float product, then truncation
\* toward zero.
Scaled(base, f) == RoundFloat(base * f.num) \div f.den

AtLeast(calculated, floor) == IF calculated > floor THEN calculated ELSE floor

\* Mutant: the minimum thresholds are not applied.
calculateThresholdsWithoutFloors(temperature) ==
    LET f == AdjustmentFactor(temperature)
    IN  [called      |-> TRUE,
         temperature |-> temperature,
         slow        |-> Scaled(BASE_SLOW_BLINK_COUNTER, f),
         medium      |-> Scaled(BASE_MEDIUM_BLINK_COUNTER, f),
         fast        |-> Scaled(BASE_FAST_BLINK_COUNTER, f),
         critical    |-> Scaled(BASE_CRITICAL_BLINK_COUNTER, f),
         stop        |-> Scaled(BASE_STOP_COUNTER, f)]

\* Mutant: the minimum of the slow threshold and that of the stop threshold
\* are exchanged.
ThresholdsAtFloorsExchanged(temperature) ==
    LET f == AdjustmentFactor(temperature)
    IN  [called      |-> TRUE,
         temperature |-> temperature,
         slow        |-> AtLeast(Scaled(BASE_SLOW_BLINK_COUNTER, f), 2),
         medium      |-> AtLeast(Scaled(BASE_MEDIUM_BLINK_COUNTER, f), 2),
         fast        |-> AtLeast(Scaled(BASE_FAST_BLINK_COUNTER, f), 3),
         critical    |-> AtLeast(Scaled(BASE_CRITICAL_BLINK_COUNTER, f), 4),
         stop        |-> AtLeast(Scaled(BASE_STOP_COUNTER, f), 1)]

\* The outputs for one temperature.
ThresholdsAt(temperature) ==
    LET f == AdjustmentFactor(temperature)
    IN  [called      |-> TRUE,
         temperature |-> temperature,
         slow        |-> AtLeast(Scaled(BASE_SLOW_BLINK_COUNTER, f), 1),
         medium      |-> AtLeast(Scaled(BASE_MEDIUM_BLINK_COUNTER, f), 2),
         fast        |-> AtLeast(Scaled(BASE_FAST_BLINK_COUNTER, f), 3),
         critical    |-> AtLeast(Scaled(BASE_CRITICAL_BLINK_COUNTER, f), 4),
         stop        |-> AtLeast(Scaled(BASE_STOP_COUNTER, f), 2)]

\* The calculator is a function of its argument alone: its outputs for the
\* temperatures a float variable of the program can hold here.
CalculatedThresholds == [temperature \in 0..TempHi |-> ThresholdsAt(temperature)]

calculateTemperatureAdjustedThresholds(temperature) ==
    CalculatedThresholds[temperature]

\* tempData before temperatureTask fills it in.
NoTempData ==
    [temperature |-> 0, humidity |-> 0, validReading |-> FALSE, timestamp |-> 0]

NoThresholds ==
    [called |-> FALSE, temperature |-> 0, slow |-> 0, medium |-> 0,
     fast |-> 0, critical |-> 0, stop |-> 0]

\* Mutant: a tier is entered only above its threshold.
calculateBlinkRateAbove(counter, th) ==
    IF counter > th.critical THEN 4
    ELSE IF counter > th.fast THEN 3
    ELSE IF counter > th.medium THEN 2
    ELSE IF counter > th.slow THEN 1
    ELSE 0

calculateBlinkRate(counter, th) ==
    IF counter >= th.critical THEN 4
    ELSE IF counter >= th.fast THEN 3
    ELSE IF counter >= th.medium THEN 2
    ELSE IF counter >= th.slow THEN 1
    ELSE 0

\* Mutant: the call returns only once there is room (a wait without end).
xQueueSendWaitsForRoom(queue, length, xTicksToWait) == Len(queue) < length

\* xQueueSend(queue, item, xTicksToWait) returns: at once when there is room,
\* and on a full queue when the wait it is given runs out.
xQueueSendReturns(queue, length, xTicksToWait) ==
    Len(queue) < length \/ xTicksToWait < portMAX_DELAY

\* xQueueSend(queue, item, 0): the item is appended unless the queue is full.
xQueueSend(queue, item, length) ==
    IF Len(queue) < length THEN Append(queue, item) ELSE queue

\* ------------------------------------------------------------ initial state
\* millis() when motionDetectionTask starts: setup() has run for seconds by
\* then, and the origin is placed so that the clock reads MaxTime.  The task
\* stores that reading (lastCounterUpdate = millis()) before its loop.
BootTime == MaxTime

\* What every specification starts with outside the engine: the initialisers
\* of the globals and of the tasks' locals, queues empty, ALERT_LED_PIN low.
RestInit ==
    /\ queuesAllocated = [q \in QueueNames |-> TRUE]
    /\ stoppedThisCycle = FALSE
    /\ currentHumidity = INITIAL_HUMIDITY
    /\ temperatureDataValid = FALSE
    /\ temperatureQueue = <<>>
    /\ tempPc = "read"
    /\ tempData = NoTempData
    /\ motionQueue = <<>>
    /\ currentBlinkRate = 0
    /\ motionActive = FALSE
    /\ ledState = FALSE
    /\ blinkingActive = FALSE
    /\ currentInterval = 0
    /\ lastBlinkTime = 0
    /\ alertLedPin = FALSE

Init ==
    /\ now = BootTime
    /\ pirTriggered = FALSE
    /\ stopButtonPressed = FALSE
    /\ lastPirTrigger = 0
    /\ motionPersistenceCounter = 0
    /\ lastCounterUpdate = BootTime
    /\ alertSystemStopped = FALSE
    /\ currentTemperature = INITIAL_TEMPERATURE
    /\ ALERT_STOP_THRESHOLD = INITIAL_STOP_THRESHOLD
    /\ thresholds = NoThresholds
    /\ motionPc = "sample"
    /\ currentTime = 0
    /\ lastBlinkRate = 0
    /\ alertQueue = <<>>
    /\ pirUnserved = FALSE
    /\ pirCoalesced = FALSE
    /\ pirWait = 0
    /\ RestInit

\* ------------------------------------------------------------------- clock
\* A timestamp after the clock origin has moved forward by s.
Rebased(t, s) == Max(t - s, 0)

\* millis() advances by d.  Inside an engine cycle the clock moves at most
\* MaxLag past the cycle's sample of it.
Tick(d) ==
    /\ motionPc = "sample" \/ (now + d) - currentTime <= MaxLag
    /\ LET s == Max((now + d) - MaxTime, 0)
       IN  /\ now' = (now + d) - s
           /\ lastPirTrigger' = Rebased(lastPirTrigger, s)
           /\ lastCounterUpdate' = Rebased(lastCounterUpdate, s)
           /\ currentTime' = Rebased(currentTime, s)
    /\ lastBlinkTime' = Rebased(lastBlinkTime, Max((now + d) - MaxTime, 0))
    /\ UNCHANGED <<stoppedThisCycle, sampling, reporting, led, queuesAllocated>>
    /\ UNCHANGED <<pirTriggered, stopButtonPressed, motionPersistenceCounter,
                   alertSystemStopped, currentTemperature, ALERT_STOP_THRESHOLD,
                   thresholds, motionPc, lastBlinkRate, alertQueue, observers>>

\* -------------------------------------------------------------------- ISRs
motionISR ==
    /\ pirTriggered' = TRUE
    /\ lastPirTrigger' = now
    /\ IF alertSystemStopped
       THEN UNCHANGED observers
       ELSE /\ pirUnserved' = TRUE
            /\ pirCoalesced' = pirUnserved
            /\ pirWait' = IF pirUnserved THEN pirWait ELSE 0
    /\ UNCHANGED <<stoppedThisCycle, sampling, reporting, led,
                   queuesAllocated, lastBlinkTime>>
    /\ UNCHANGED <<now, stopButtonPressed, motionPersistenceCounter,
                   lastCounterUpdate, alertSystemStopped, currentTemperature,
                   ALERT_STOP_THRESHOLD, thresholds, motionPc, currentTime,
                   lastBlinkRate, alertQueue>>

\* Mutant: the press is flagged without the counter gate.
stopButtonISRUngated ==
    /\ stopButtonPressed' = TRUE
    /\ UNCHANGED <<stoppedThisCycle, sampling, reporting, led,
                   queuesAllocated, lastBlinkTime>>
    /\ UNCHANGED <<now, pirTriggered, lastPirTrigger, motionPersistenceCounter,
                   lastCounterUpdate, alertSystemStopped, currentTemperature,
                   ALERT_STOP_THRESHOLD, thresholds, motionPc, currentTime,
                   lastBlinkRate, alertQueue, observers>>

\* Mutant: the handler honors the press itself.
stopButtonISRStops ==
    /\ alertSystemStopped' =
          (alertSystemStopped \/ motionPersistenceCounter > ALERT_STOP_THRESHOLD)
    /\ motionPersistenceCounter' =
          IF motionPersistenceCounter > ALERT_STOP_THRESHOLD
          THEN 0 ELSE motionPersistenceCounter
    /\ UNCHANGED <<stoppedThisCycle, sampling, reporting, led,
                   queuesAllocated, lastBlinkTime>>
    /\ UNCHANGED <<now, pirTriggered, stopButtonPressed, lastPirTrigger,
                   lastCounterUpdate, currentTemperature, ALERT_STOP_THRESHOLD,
                   thresholds, motionPc, currentTime, lastBlinkRate, alertQueue,
                   observers>>

stopButtonISR ==
    /\ stopButtonPressed' =
          IF motionPersistenceCounter > ALERT_STOP_THRESHOLD
          THEN TRUE ELSE stopButtonPressed
    /\ UNCHANGED <<stoppedThisCycle, sampling, reporting, led,
                   queuesAllocated, lastBlinkTime>>
    /\ UNCHANGED <<now, pirTriggered, lastPirTrigger, motionPersistenceCounter,
                   lastCounterUpdate, alertSystemStopped, currentTemperature,
                   ALERT_STOP_THRESHOLD, thresholds, motionPc, currentTime,
                   lastBlinkRate, alertQueue, observers>>

\* --------------------------------------------------------- temperatureTask
\* A successful sensor read stores the sample.
TemperatureRead(t) ==
    /\ currentTemperature' = t
    /\ UNCHANGED <<stoppedThisCycle, sampling, reporting, led,
                   queuesAllocated, lastBlinkTime>>
    /\ UNCHANGED <<now, pirTriggered, stopButtonPressed, lastPirTrigger,
                   motionPersistenceCounter, lastCounterUpdate,
                   alertSystemStopped, ALERT_STOP_THRESHOLD, thresholds,
                   motionPc, currentTime, lastBlinkRate, alertQueue, observers>>

\* The threshold calculation every iteration ends with; loop() makes the
\* same call for its status report.
TemperatureCalc ==
    /\ thresholds' = calculateTemperatureAdjustedThresholds(currentTemperature)
    /\ ALERT_STOP_THRESHOLD' = thresholds'.stop
    /\ UNCHANGED <<stoppedThisCycle, sampling, reporting, led,
                   queuesAllocated, lastBlinkTime>>
    /\ UNCHANGED <<now, pirTriggered, stopButtonPressed, lastPirTrigger,
                   motionPersistenceCounter, lastCounterUpdate,
                   alertSystemStopped, currentTemperature, motionPc,
                   currentTime, lastBlinkRate, alertQueue, observers>>

\* ----------------------------------------------------- motionDetectionTask
StopAlert == [blinkRate |-> 0, active |-> FALSE, forceUpdate |-> TRUE]

\* uint32_t currentTime = millis();
MotionSample ==
    /\ motionPc = "sample"
    /\ currentTime' = now
    /\ motionPc' = "stopTest"
    /\ stoppedThisCycle' = FALSE
    /\ UNCHANGED <<sampling, reporting, led, queuesAllocated, lastBlinkTime>>
    /\ UNCHANGED <<now, pirTriggered, stopButtonPressed, lastPirTrigger,
                   motionPersistenceCounter, lastCounterUpdate,
                   alertSystemStopped, currentTemperature, ALERT_STOP_THRESHOLD,
                   thresholds, lastBlinkRate, alertQueue, observers>>

\* if (stopButtonPressed) { stopButtonPressed = false;
MotionStopTest ==
    /\ motionPc = "stopTest"
    /\ stopButtonPressed' = FALSE
    /\ motionPc' = IF stopButtonPressed THEN "stopCheck" ELSE "pirTest"
    /\ UNCHANGED <<stoppedThisCycle, sampling, reporting, led,
                   queuesAllocated, lastBlinkTime>>
    /\ UNCHANGED <<now, pirTriggered, lastPirTrigger, motionPersistenceCounter,
                   lastCounterUpdate, alertSystemStopped, currentTemperature,
                   ALERT_STOP_THRESHOLD, thresholds, currentTime, lastBlinkRate,
                   alertQueue, observers>>

\* Mutant: the drained flag is honored without the threshold re-check.
MotionStopCheckUngated ==
    /\ motionPc = "stopCheck"
    /\ alertSystemStopped' = TRUE
    /\ motionPersistenceCounter' = 0
    /\ xQueueSendReturns(alertQueue, ALERT_QUEUE_LENGTH, NO_WAIT)
    /\ alertQueue' = xQueueSend(alertQueue, StopAlert, ALERT_QUEUE_LENGTH)
    /\ motionPc' = "pirTest"
    /\ stoppedThisCycle' = TRUE
    /\ UNCHANGED <<sampling, reporting, led, queuesAllocated, lastBlinkTime>>
    /\ UNCHANGED <<now, pirTriggered, stopButtonPressed, lastPirTrigger,
                   lastCounterUpdate, currentTemperature, ALERT_STOP_THRESHOLD,
                   thresholds, currentTime, lastBlinkRate, observers>>

\* Mutant: the stop is honored without the immediate command.
MotionStopCheckSilent ==
    /\ motionPc = "stopCheck"
    /\ IF motionPersistenceCounter > ALERT_STOP_THRESHOLD
       THEN /\ alertSystemStopped' = TRUE
            /\ motionPersistenceCounter' = 0
       ELSE UNCHANGED <<alertSystemStopped, motionPersistenceCounter>>
    /\ UNCHANGED alertQueue
    /\ motionPc' = "pirTest"
    /\ stoppedThisCycle' = (motionPersistenceCounter > ALERT_STOP_THRESHOLD)
    /\ UNCHANGED <<sampling, reporting, led, queuesAllocated, lastBlinkTime>>
    /\ UNCHANGED <<now, pirTriggered, stopButtonPressed, lastPirTrigger,
                   lastCounterUpdate, currentTemperature, ALERT_STOP_THRESHOLD,
                   thresholds, currentTime, lastBlinkRate, observers>>

\* if (motionPersistenceCounter > ALERT_STOP_THRESHOLD) { ... } }
MotionStopCheck ==
    /\ motionPc = "stopCheck"
    /\ IF motionPersistenceCounter > ALERT_STOP_THRESHOLD
       THEN /\ alertSystemStopped' = TRUE
            /\ motionPersistenceCounter' = 0
            /\ xQueueSendReturns(alertQueue, ALERT_QUEUE_LENGTH, NO_WAIT)
            /\ alertQueue' = xQueueSend(alertQueue, StopAlert, ALERT_QUEUE_LENGTH)
       ELSE UNCHANGED <<alertSystemStopped, motionPersistenceCounter, alertQueue>>
    /\ motionPc' = "pirTest"
    /\ stoppedThisCycle' = (motionPersistenceCounter > ALERT_STOP_THRESHOLD)
    /\ UNCHANGED <<sampling, reporting, led, queuesAllocated, lastBlinkTime>>
    /\ UNCHANGED <<now, pirTriggered, stopButtonPressed, lastPirTrigger,
                   lastCounterUpdate, currentTemperature, ALERT_STOP_THRESHOLD,
                   thresholds, currentTime, lastBlinkRate, observers>>

\* The test of the PIR branch, `drain` being the value of its condition.
PirTestTo(drain) ==
    /\ motionPc = "pirTest"
    /\ motionPc' = IF drain THEN "pirDrain" ELSE "decay"
    /\ UNCHANGED <<stoppedThisCycle, sampling, reporting, led,
                   queuesAllocated, lastBlinkTime>>
    /\ UNCHANGED <<now, pirTriggered, stopButtonPressed, lastPirTrigger,
                   motionPersistenceCounter, lastCounterUpdate,
                   alertSystemStopped, currentTemperature, ALERT_STOP_THRESHOLD,
                   thresholds, currentTime, lastBlinkRate, alertQueue, observers>>

\* Mutant: the flag is drained whatever the mode.
MotionPirTestIgnoresMode == PirTestTo(pirTriggered)

\* if (pirTriggered && !alertSystemStopped)
MotionPirTest == PirTestTo(pirTriggered /\ ~alertSystemStopped)

\* The body of the PIR branch with the next values of the flag, the counter
\* and the decay reference given.
PirDrainTo(flag, counter, reference) ==
    /\ motionPc = "pirDrain"
    /\ pirTriggered' = flag
    /\ motionPersistenceCounter' = counter
    /\ lastCounterUpdate' = reference
    /\ motionPc' = "decay"
    /\ pirUnserved' = FALSE
    /\ pirWait' = 0
    /\ UNCHANGED <<stoppedThisCycle, sampling, reporting, led,
                   queuesAllocated, lastBlinkTime>>
    /\ UNCHANGED <<now, stopButtonPressed, lastPirTrigger, alertSystemStopped,
                   currentTemperature, ALERT_STOP_THRESHOLD, thresholds,
                   currentTime, lastBlinkRate, alertQueue, pirCoalesced>>

\* Mutant: the increment without its saturation guard.
MotionPirDrainUnsaturated ==
    PirDrainTo(FALSE, motionPersistenceCounter + 1, currentTime)

\* Mutant: the flag is not cleared.
MotionPirDrainKeepsFlag ==
    PirDrainTo(pirTriggered,
               IF motionPersistenceCounter < MAX_PERSISTENCE_COUNTER
               THEN motionPersistenceCounter + 1 ELSE motionPersistenceCounter,
               currentTime)

\* Mutant: the drain leaves the decay reference as it is.
MotionPirDrainKeepsReference ==
    PirDrainTo(FALSE,
               IF motionPersistenceCounter < MAX_PERSISTENCE_COUNTER
               THEN motionPersistenceCounter + 1 ELSE motionPersistenceCounter,
               lastCounterUpdate)

\* Mutant: the increment stops one below the maximum.
MotionPirDrainSaturatesBelow ==
    PirDrainTo(FALSE,
               IF motionPersistenceCounter < MAX_PERSISTENCE_COUNTER - 1
               THEN motionPersistenceCounter + 1 ELSE motionPersistenceCounter,
               currentTime)

\* { pirTriggered = false; counter++ (saturating); lastCounterUpdate = currentTime; }
MotionPirDrain ==
    PirDrainTo(FALSE,
               IF motionPersistenceCounter < MAX_PERSISTENCE_COUNTER
               THEN motionPersistenceCounter + 1 ELSE motionPersistenceCounter,
               currentTime)

\* The decay tick is due in this cycle.
DecayDue ==
    GeU32(Sub32(currentTime, lastCounterUpdate), COUNTER_UPDATE_INTERVAL)

\* PIR silent during the detection window, as the code measures it.
PirSilent ==
    GeU32(Sub32(currentTime, lastPirTrigger), PIR_DETECTION_WINDOW)

\* The 6-second block, decrementing while the counter is above `least`.
\* `rearmIdle` is whether the re-enable test is also made by a silent tick
\* that finds the counter at 0.
DecayAbove(least, rearmIdle) ==
    /\ motionPc = "decay"
    /\ IF DecayDue
       THEN /\ IF PirSilent /\ motionPersistenceCounter > least
               THEN /\ motionPersistenceCounter' = motionPersistenceCounter - 1
                    /\ alertSystemStopped' =
                          IF alertSystemStopped /\ motionPersistenceCounter' = 0
                          THEN FALSE ELSE alertSystemStopped
               ELSE /\ UNCHANGED motionPersistenceCounter
                    /\ alertSystemStopped' =
                          IF rearmIdle /\ PirSilent
                                /\ motionPersistenceCounter = 0
                          THEN FALSE ELSE alertSystemStopped
            /\ lastCounterUpdate' = currentTime
       ELSE UNCHANGED <<motionPersistenceCounter, alertSystemStopped,
                        lastCounterUpdate>>
    /\ motionPc' = "emit"
    /\ UNCHANGED <<stoppedThisCycle, sampling, reporting, led,
                   queuesAllocated, lastBlinkTime>>
    /\ UNCHANGED <<now, pirTriggered, stopButtonPressed, lastPirTrigger,
                   currentTemperature, ALERT_STOP_THRESHOLD, thresholds,
                   currentTime, lastBlinkRate, alertQueue, observers>>

\* Mutant: the re-enable test is made outside the decrement branch.
MotionDecayRearmsAtZero == DecayAbove(0, TRUE)

\* Mutant: the decrement stops one step early.
MotionDecayOffByOne == DecayAbove(1, FALSE)

\* 6-second polling cycle for counter decrement
MotionDecay == DecayAbove(0, FALSE)

\* Alert level, per-cycle AlertLedData, vTaskDelay.  currentTime is a local
\* of the loop body and ends with the iteration.
MotionEmit ==
    /\ motionPc = "emit"
    /\ LET th == calculateTemperatureAdjustedThresholds(currentTemperature)
           blinkRateNow ==
               IF ~alertSystemStopped
               THEN calculateBlinkRate(motionPersistenceCounter, th) ELSE 0
           motionActiveNow ==
               ~alertSystemStopped
               /\ motionPersistenceCounter >= MIN_COUNTER_FOR_ALERT
           alertData ==
               [blinkRate   |-> blinkRateNow,
                active      |-> motionActiveNow /\ ~alertSystemStopped,
                forceUpdate |-> (blinkRateNow # lastBlinkRate)
                                \/ alertSystemStopped]
       IN  /\ IF ~alertSystemStopped
              THEN /\ thresholds' = th
                   /\ ALERT_STOP_THRESHOLD' = th.stop
              ELSE UNCHANGED <<thresholds, ALERT_STOP_THRESHOLD>>
           /\ xQueueSendReturns(alertQueue, ALERT_QUEUE_LENGTH, NO_WAIT)
           /\ alertQueue' = xQueueSend(alertQueue, alertData, ALERT_QUEUE_LENGTH)
           /\ lastBlinkRate' = blinkRateNow
    /\ motionPc' = "sample"
    /\ currentTime' = 0
    /\ pirWait' = IF pirUnserved THEN Min(pirWait + 1, 2) ELSE 0
    /\ pirCoalesced' = (pirUnserved /\ pirCoalesced)
    /\ UNCHANGED <<stoppedThisCycle, sampling, reporting, led,
                   queuesAllocated, lastBlinkTime>>
    /\ UNCHANGED <<now, pirTriggered, stopButtonPressed, lastPirTrigger,
                   motionPersistenceCounter, lastCounterUpdate,
                   alertSystemStopped, currentTemperature, pirUnserved>>

MotionStep ==
    \/ MotionSample
    \/ MotionStopTest
    \/ MotionStopCheck
    \/ MotionPirTest
    \/ MotionPirDrain
    \/ MotionDecay
    \/ MotionEmit

\* ------------------------------------------------------------ alertLedTask
\* xQueueReceive(alertQueue, &alertData, ...)
AlertLedReceive ==
    /\ alertQueue # <<>>
    /\ alertQueue' = Tail(alertQueue)
    /\ UNCHANGED <<stoppedThisCycle, sampling, reporting, led,
                   queuesAllocated, lastBlinkTime>>
    /\ UNCHANGED <<now, pirTriggered, stopButtonPressed, lastPirTrigger,
                   motionPersistenceCounter, lastCounterUpdate,
                   alertSystemStopped, currentTemperature, ALERT_STOP_THRESHOLD,
                   thresholds, motionPc, currentTime, lastBlinkRate, observers>>

\* ------------------------------------------ temperatureTask, step by step
\* status == 0: tempData filled in, currentTemperature = tempData.temperature.
TemperatureReadOk(sample) ==
    /\ tempPc = "read"
    /\ tempData' = [temperature  |-> sample.temperature,
                    humidity     |-> sample.humidity,
                    validReading |-> TRUE,
                    timestamp    |-> now]
    /\ currentTemperature' = sample.temperature
    /\ tempPc' = "humidity"
    /\ UNCHANGED <<now, pirTriggered, stopButtonPressed, lastPirTrigger,
                   motionPersistenceCounter, lastCounterUpdate,
                   alertSystemStopped, ALERT_STOP_THRESHOLD, thresholds,
                   motionPc, currentTime, lastBlinkRate, alertQueue, observers,
                   stoppedThisCycle, currentHumidity, temperatureDataValid,
                   temperatureQueue, reporting, led, queuesAllocated, lastBlinkTime>>

\* currentHumidity = tempData.humidity; temperatureDataValid = true;
\* xQueueSend(temperatureQueue, &tempData, 0);
TemperatureStoreHumidity ==
    /\ tempPc = "humidity"
    /\ currentHumidity' = tempData.humidity
    /\ temperatureDataValid' = TRUE
    /\ xQueueSendReturns(temperatureQueue, TEMPERATURE_QUEUE_LENGTH, NO_WAIT)
    /\ temperatureQueue' =
          xQueueSend(temperatureQueue, tempData, TEMPERATURE_QUEUE_LENGTH)
    /\ tempPc' = "calc"
    /\ UNCHANGED <<now, pirTriggered, stopButtonPressed, lastPirTrigger,
                   motionPersistenceCounter, lastCounterUpdate,
                   alertSystemStopped, currentTemperature, ALERT_STOP_THRESHOLD,
                   thresholds, motionPc, currentTime, lastBlinkRate, alertQueue,
                   observers, stoppedThisCycle, tempData, reporting, led, queuesAllocated,
                   lastBlinkTime>>

\* The else branch with the values of the globals after it given.
ReadFailedTo(temperature, humidity) ==
    /\ tempPc = "read"
    /\ tempData' = [temperature  |-> 0,
                    humidity     |-> 0,
                    validReading |-> FALSE,
                    timestamp    |-> now]
    /\ currentTemperature' = temperature
    /\ currentHumidity' = humidity
    /\ tempPc' = "calc"
    /\ UNCHANGED <<now, pirTriggered, stopButtonPressed, lastPirTrigger,
                   motionPersistenceCounter, lastCounterUpdate,
                   alertSystemStopped, ALERT_STOP_THRESHOLD, thresholds,
                   motionPc, currentTime, lastBlinkRate, alertQueue, observers,
                   stoppedThisCycle, temperatureDataValid, temperatureQueue,
                   reporting, led, queuesAllocated, lastBlinkTime>>

\* Mutant: a failed read stores the sensor's error values.
TemperatureReadFailedStoresZero == ReadFailedTo(0, 0)

\* status != 0: tempData.validReading = false, nothing else is written.
TemperatureReadFailed == ReadFailedTo(currentTemperature, currentHumidity)

\* currentTime - lastSensorRead < 3000: no read in this iteration.
TemperatureNotDue ==
    /\ tempPc = "read"
    /\ tempPc' = "calc"
    /\ UNCHANGED <<now, pirTriggered, stopButtonPressed, lastPirTrigger,
                   motionPersistenceCounter, lastCounterUpdate,
                   alertSystemStopped, currentTemperature, ALERT_STOP_THRESHOLD,
                   thresholds, motionPc, currentTime, lastBlinkRate, alertQueue,
                   observers, stoppedThisCycle, currentHumidity,
                   temperatureDataValid, temperatureQueue, tempData, reporting,
                   led, queuesAllocated, lastBlinkTime>>

\* calculateTemperatureAdjustedThresholds(currentTemperature, ...); vTaskDelay.
TemperatureThresholds ==
    /\ tempPc = "calc"
    /\ thresholds' = calculateTemperatureAdjustedThresholds(currentTemperature)
    /\ ALERT_STOP_THRESHOLD' = thresholds'.stop
    /\ tempData' = NoTempData
    /\ tempPc' = "read"
    /\ UNCHANGED <<now, pirTriggered, stopButtonPressed, lastPirTrigger,
                   motionPersistenceCounter, lastCounterUpdate,
                   alertSystemStopped, currentTemperature, motionPc,
                   currentTime, lastBlinkRate, alertQueue, observers,
                   stoppedThisCycle, currentHumidity, temperatureDataValid,
                   temperatureQueue, reporting, led, queuesAllocated, lastBlinkTime>>

TemperatureStep ==
    \/ \E sample \in SensorSamples : TemperatureReadOk(sample)
    \/ TemperatureStoreHumidity
    \/ TemperatureReadFailed
    \/ TemperatureNotDue
    \/ TemperatureThresholds

\* ------------------------- motionDetectionTask's report phase, step by step
\* if (!alertSystemStopped) { currentBlinkRate = calculateBlinkRate(...);
\*                            motionActive = (counter >= MIN_COUNTER_FOR_ALERT); }
MotionLevel ==
    /\ motionPc = "emit"
    /\ IF ~alertSystemStopped
       THEN LET th == calculateTemperatureAdjustedThresholds(currentTemperature)
            IN  /\ thresholds' = th
                /\ ALERT_STOP_THRESHOLD' = th.stop
                /\ currentBlinkRate' =
                      calculateBlinkRate(motionPersistenceCounter, th)
                /\ motionActive' =
                      (motionPersistenceCounter >= MIN_COUNTER_FOR_ALERT)
       ELSE /\ currentBlinkRate' = 0
            /\ motionActive' = FALSE
            /\ UNCHANGED <<thresholds, ALERT_STOP_THRESHOLD>>
    /\ motionPc' = "report"
    /\ UNCHANGED <<now, pirTriggered, stopButtonPressed, lastPirTrigger,
                   motionPersistenceCounter, lastCounterUpdate,
                   alertSystemStopped, currentTemperature, currentTime,
                   lastBlinkRate, alertQueue, observers, stoppedThisCycle,
                   sampling, motionQueue, led, queuesAllocated, lastBlinkTime>>

StatusMessage(counter, stopped, rate) ==
    IF stopped THEN "ALERT STOPPED"
    ELSE IF counter = 0 THEN "No Motion"
    ELSE IF rate = 4 THEN "CRITICAL HOT"
    ELSE IF rate = 3 THEN "HIGH ALERT"
    ELSE IF rate = 2 THEN "MEDIUM ALERT"
    ELSE IF rate = 1 THEN "LOW ALERT"
    ELSE "Motion Brief"

\* MotionData data; ...; xQueueSend(motionQueue, &data, 0);
MotionReport ==
    /\ motionPc = "report"
    /\ LET data ==
               [motionDetected     |-> motionActive,
                timestamp          |-> currentTime,
                persistenceCounter |-> motionPersistenceCounter,
                alertLevel         |-> currentBlinkRate,
                alertSystemStopped |-> alertSystemStopped,
                temperature        |-> currentTemperature,
                humidity           |-> currentHumidity,
                message            |-> StatusMessage(motionPersistenceCounter,
                                                     alertSystemStopped,
                                                     currentBlinkRate)]
       IN  /\ xQueueSendReturns(motionQueue, MOTION_QUEUE_LENGTH, NO_WAIT)
           /\ motionQueue' = xQueueSend(motionQueue, data, MOTION_QUEUE_LENGTH)
    /\ motionPc' = "command"
    /\ UNCHANGED <<now, pirTriggered, stopButtonPressed, lastPirTrigger,
                   motionPersistenceCounter, lastCounterUpdate,
                   alertSystemStopped, currentTemperature, ALERT_STOP_THRESHOLD,
                   thresholds, currentTime, lastBlinkRate, alertQueue, observers,
                   stoppedThisCycle, sampling, currentBlinkRate, motionActive,
                   led, queuesAllocated, lastBlinkTime>>

\* AlertLedData alertData; ...; xQueueSend(alertQueue, &alertData, 0);
\* lastBlinkRate = currentBlinkRate; vTaskDelay.  The locals end with the
\* iteration.  `forceUpdate` is the value given to alertData.forceUpdate;
\* `send` tells whether the iteration reaches the xQueueSend.
CommandTo(send, active, forceUpdate) ==
    /\ motionPc = "command"
    /\ LET alertData ==
               [blinkRate   |-> currentBlinkRate,
                active      |-> active,
                forceUpdate |-> forceUpdate]
       IN  /\ xQueueSendReturns(alertQueue, ALERT_QUEUE_LENGTH, NO_WAIT)
           /\ alertQueue' = IF send
                             THEN xQueueSend(alertQueue, alertData,
                                             ALERT_QUEUE_LENGTH)
                             ELSE alertQueue
    /\ lastBlinkRate' = currentBlinkRate
    /\ motionPc' = "sample"
    /\ currentTime' = 0
    /\ currentBlinkRate' = 0
    /\ motionActive' = FALSE
    /\ pirWait' = IF pirUnserved THEN Min(pirWait + 1, 2) ELSE 0
    /\ pirCoalesced' = (pirUnserved /\ pirCoalesced)
    /\ UNCHANGED <<now, pirTriggered, stopButtonPressed, lastPirTrigger,
                   motionPersistenceCounter, lastCounterUpdate,
                   alertSystemStopped, currentTemperature, ALERT_STOP_THRESHOLD,
                   thresholds, pirUnserved, stoppedThisCycle, sampling,
                   motionQueue, led, queuesAllocated, lastBlinkTime>>

\* alertData.active = motionActive && !alertSystemStopped;
CommandWith(forceUpdate) ==
    CommandTo(TRUE, motionActive /\ ~alertSystemStopped, forceUpdate)

\* Mutant: active is set exactly when the blink rate is not 0.
MotionCommandActiveIffBlinking ==
    CommandTo(TRUE, currentBlinkRate > 0,
              (currentBlinkRate # lastBlinkRate) \/ alertSystemStopped)

\* Mutant: a command is sent on a change of level and while stopped only.
MotionCommandOnChangeOnly ==
    CommandTo((currentBlinkRate # lastBlinkRate) \/ alertSystemStopped,
              motionActive /\ ~alertSystemStopped,
              (currentBlinkRate # lastBlinkRate) \/ alertSystemStopped)

\* Mutant: forceUpdate is set on a change of level and in the cycle of the
\* stop only.
MotionCommandForcesOnChange ==
    CommandWith((currentBlinkRate # lastBlinkRate) \/ stoppedThisCycle)

\* alertData.forceUpdate = (currentBlinkRate != lastBlinkRate) || alertSystemStopped;
MotionCommand ==
    CommandWith((currentBlinkRate # lastBlinkRate) \/ alertSystemStopped)

\* One iteration of the loop body in the steps the other tasks can come between.
MotionFineStep ==
    \/ MotionSample
    \/ MotionStopTest
    \/ MotionStopCheck
    \/ MotionPirTest
    \/ MotionPirDrain
    \/ MotionDecay
    \/ MotionLevel
    \/ MotionReport
    \/ MotionCommand

\* ------------------------------------------------------------ displayTask
\* One iteration: xQueueReceive(temperatureQueue, ...), xQueueReceive(motionQueue, ...).
displayTask ==
    /\ temperatureQueue # <<>> \/ motionQueue # <<>>
    /\ temperatureQueue' =
          IF temperatureQueue # <<>> THEN Tail(temperatureQueue) ELSE <<>>
    /\ motionQueue' = IF motionQueue # <<>> THEN Tail(motionQueue) ELSE <<>>
    /\ UNCHANGED <<now, pirTriggered, stopButtonPressed, lastPirTrigger,
                   motionPersistenceCounter, lastCounterUpdate,
                   alertSystemStopped, currentTemperature, ALERT_STOP_THRESHOLD,
                   thresholds, motionPc, currentTime, lastBlinkRate, alertQueue,
                   observers, stoppedThisCycle, currentHumidity,
                   temperatureDataValid, tempPc, tempData, currentBlinkRate,
                   motionActive, led, queuesAllocated, lastBlinkTime>>

\* ------------------------------------------------ alertLedTask, whole
\* Mutant: rate 3 blinks at the MEDIUM interval.
getBlinkIntervalFastIsMedium(rate) ==
    CASE rate = 1 -> SLOW_BLINK_INTERVAL
      [] rate = 2 -> MEDIUM_BLINK_INTERVAL
      [] rate = 3 -> MEDIUM_BLINK_INTERVAL
      [] rate = 4 -> CRITICAL_BLINK_INTERVAL
      [] OTHER -> 0

getBlinkInterval(rate) ==
    CASE rate = 1 -> SLOW_BLINK_INTERVAL
      [] rate = 2 -> MEDIUM_BLINK_INTERVAL
      [] rate = 3 -> FAST_BLINK_INTERVAL
      [] rate = 4 -> CRITICAL_BLINK_INTERVAL
      [] OTHER -> 0

\* One iteration: the command, if one is queued, then the blink handling.
\* `offStopsBlinking` is whether the else branch clears blinkingActive,
\* `blinkNeedsCommand` whether the blink handling waits for a command,
\* `offClearsState` whether the else branch clears ledState.
LedIteration(offStopsBlinking, blinkNeedsCommand, offClearsState) ==
    LET received == alertQueue # <<>>
        alertData == Head(alertQueue)
        on == received /\ alertData.active /\ alertData.blinkRate > 0
        off == received /\ ~on
        interval == IF on THEN getBlinkInterval(alertData.blinkRate)
                    ELSE currentInterval
        blinking == IF on THEN TRUE
                    ELSE IF off /\ offStopsBlinking THEN FALSE
                    ELSE blinkingActive
        since == IF on /\ alertData.forceUpdate THEN now ELSE lastBlinkTime
        state == IF off /\ offClearsState THEN FALSE ELSE ledState
        pin == IF off THEN FALSE ELSE alertLedPin
        due == /\ blinking
               /\ blinkNeedsCommand => received
               /\ interval > 0
               /\ GeU32(Sub32(now, since), interval)
    IN  /\ alertQueue' = IF received THEN Tail(alertQueue) ELSE alertQueue
        /\ currentInterval' = interval
        /\ blinkingActive' = blinking
        /\ ledState' = IF due THEN ~state ELSE state
        /\ alertLedPin' = IF due THEN ~state ELSE pin
        /\ lastBlinkTime' = IF due THEN now ELSE since
        /\ UNCHANGED <<now, pirTriggered, stopButtonPressed, lastPirTrigger,
                       motionPersistenceCounter, lastCounterUpdate,
                       alertSystemStopped, currentTemperature,
                       ALERT_STOP_THRESHOLD, thresholds, motionPc, currentTime,
                       lastBlinkRate, observers, stoppedThisCycle, sampling,
                       reporting, queuesAllocated>>

\* Mutant: the else branch leaves blinkingActive as it is.
alertLedTaskKeepsBlinking == LedIteration(FALSE, FALSE, TRUE)

\* Mutant: the LED is switched only in an iteration that received a command.
alertLedTaskBlinksOnCommand == LedIteration(TRUE, TRUE, TRUE)

\* Mutant: the else branch writes the pin LOW and leaves ledState as it is.
alertLedTaskKeepsState == LedIteration(TRUE, FALSE, FALSE)

alertLedTask == LedIteration(TRUE, FALSE, TRUE)

\* ---------------------------------------------------------- specifications
\* alertLedTask (priority 3, 5 ms period, on its own core) has emptied
\* alertQueue before anything else moves.
ConsumerKeepsUp == alertQueue = <<>>

Clock == ConsumerKeepsUp /\ \E d \in Delays : Tick(d)
Engine == ConsumerKeepsUp /\ MotionStep
MotionInterrupt == ConsumerKeepsUp /\ motionISR
StopInterrupt == ConsumerKeepsUp /\ stopButtonISR
Sampler == ConsumerKeepsUp /\ \E t \in TempSamples : TemperatureRead(t)
Calculator == ConsumerKeepsUp /\ TemperatureCalc

Next ==
    \/ Clock
    \/ MotionInterrupt
    \/ StopInterrupt
    \/ Sampler
    \/ Calculator
    \/ Engine
    \/ AlertLedReceive

Spec == Init /\ [][Next]_vars

\* The tasks are scheduled again and again, and time passes whenever it can
\* again and again, so that decay ticks keep coming due.
FairSpec ==
    /\ Spec
    /\ WF_vars(Engine)
    /\ SF_vars(Clock)
    /\ WF_vars(AlertLedReceive)

\* The program with each engine cycle atomic with respect to motionISR: the
\* PIR line rises only between two cycles.
BoundaryMotionInterrupt == motionPc = "sample" /\ MotionInterrupt

NextAtomic ==
    \/ Clock
    \/ BoundaryMotionInterrupt
    \/ StopInterrupt
    \/ Sampler
    \/ Calculator
    \/ Engine
    \/ AlertLedReceive

SpecAtomic == Init /\ [][NextAtomic]_vars

\* The program with the stop button never pressed: the mode stays ACTIVE.
NextEscalate ==
    \/ Clock
    \/ MotionInterrupt
    \/ Sampler
    \/ Calculator
    \/ Engine
    \/ AlertLedReceive

\* motionDetectionTask and alertLedTask keep being scheduled.
FairEscalate ==
    /\ Init /\ [][NextEscalate]_vars
    /\ WF_vars(Engine)
    /\ WF_vars(AlertLedReceive)

\* The threshold calculator on its own: any sample of the grid, then the call.
InitCalc ==
    /\ now = BootTime
    /\ pirTriggered = FALSE
    /\ stopButtonPressed = FALSE
    /\ lastPirTrigger = 0
    /\ motionPersistenceCounter = 0
    /\ lastCounterUpdate = BootTime
    /\ alertSystemStopped = FALSE
    /\ currentTemperature \in TempGrid
    /\ ALERT_STOP_THRESHOLD = INITIAL_STOP_THRESHOLD
    /\ thresholds = NoThresholds
    /\ motionPc = "sample"
    /\ currentTime = 0
    /\ lastBlinkRate = 0
    /\ alertQueue = <<>>
    /\ pirUnserved = FALSE
    /\ pirCoalesced = FALSE
    /\ pirWait = 0
    /\ RestInit

GridSampler == \E t \in TempGrid : TemperatureRead(t)

NextCalc ==
    \/ GridSampler
    \/ TemperatureCalc

SpecCalc == InitCalc /\ [][NextCalc]_vars

\* The clock advances an engine cycle can see between its sample of millis()
\* and its end.
Lags == {d \in Delays : d <= MaxLag}

\* The engine between two cycles with a counter of 1..20 in ACTIVE mode and
\* no motion flag pending; no motion interrupt fires from then on.  The last
\* drain or tick was now, a lag ago or a decay interval ago, and the last
\* motion event, if any, was recorded at the sample time of the cycle that
\* drained it or a lag after it.
InitQuiet ==
    /\ now = BootTime
    /\ pirTriggered = FALSE
    /\ stopButtonPressed = FALSE
    /\ motionPersistenceCounter \in 1..MAX_PERSISTENCE_COUNTER
    /\ lastCounterUpdate \in
          {BootTime, BootTime - COUNTER_UPDATE_INTERVAL}
             \cup {BootTime - d : d \in Lags}
    /\ lastPirTrigger \in
          {t \in {0, lastCounterUpdate}
                    \cup {lastCounterUpdate + d : d \in Lags} : t <= now}
    /\ alertSystemStopped = FALSE
    /\ currentTemperature \in TempSamples
    /\ thresholds = calculateTemperatureAdjustedThresholds(currentTemperature)
    /\ ALERT_STOP_THRESHOLD = thresholds.stop
    /\ motionPc = "sample"
    /\ currentTime = 0
    /\ lastBlinkRate = calculateBlinkRate(motionPersistenceCounter, thresholds)
    /\ alertQueue = <<>>
    /\ pirUnserved = FALSE
    /\ pirCoalesced = FALSE
    /\ pirWait = 0
    /\ RestInit

NextQuiet ==
    \/ Clock
    \/ StopInterrupt
    \/ Sampler
    \/ Calculator
    \/ Engine
    \/ AlertLedReceive

SpecQuiet == InitQuiet /\ [][NextQuiet]_vars

\* The program with every task in the steps the others can come between,
\* the clock standing still: what happens within one decay interval.  The
\* consumers run on the other core, alertLedTask (priority 3) ahead of
\* displayTask (priority 1), and have emptied the queues before the
\* producers move on.
QueuesDrained ==
    /\ alertQueue = <<>>
    /\ motionQueue = <<>>
    /\ temperatureQueue = <<>>

FineEngine == QueuesDrained /\ MotionFineStep
FineSampler == QueuesDrained /\ TemperatureStep
FineMotionInterrupt == QueuesDrained /\ motionISR
FineStopInterrupt == QueuesDrained /\ stopButtonISR
LoopStatus == QueuesDrained /\ TemperatureCalc
LedConsumer == alertQueue # <<>> /\ alertLedTask
Display == alertQueue = <<>> /\ displayTask

NextReport ==
    \/ FineEngine
    \/ FineSampler
    \/ FineMotionInterrupt
    \/ FineStopInterrupt
    \/ LoopStatus
    \/ LedConsumer
    \/ Display

SpecReport == Init /\ [][NextReport]_vars

\* The engine with consumers that never dequeue: displayTask and
\* alertLedTask take nothing, the PIR and the stop button keep firing.  It
\* starts after IdleCycles cycles without an event, each of which has queued
\* its report and its command.
IdleReport ==
    [motionDetected     |-> FALSE,
     timestamp          |-> BootTime,
     persistenceCounter |-> 0,
     alertLevel         |-> 0,
     alertSystemStopped |-> FALSE,
     temperature        |-> INITIAL_TEMPERATURE,
     humidity           |-> INITIAL_HUMIDITY,
     message            |-> StatusMessage(0, FALSE, 0)]

IdleCommand == [blinkRate |-> 0, active |-> FALSE, forceUpdate |-> FALSE]

InitWithBacklog(n) ==
    /\ now = BootTime
    /\ pirTriggered = FALSE
    /\ stopButtonPressed = FALSE
    /\ lastPirTrigger = 0
    /\ motionPersistenceCounter = 0
    /\ lastCounterUpdate = BootTime
    /\ alertSystemStopped = FALSE
    /\ currentTemperature = INITIAL_TEMPERATURE
    /\ thresholds = calculateTemperatureAdjustedThresholds(currentTemperature)
    /\ ALERT_STOP_THRESHOLD = thresholds.stop
    /\ motionPc = "sample"
    /\ currentTime = 0
    /\ lastBlinkRate = 0
    /\ alertQueue = [i \in 1..n |-> IdleCommand]
    /\ pirUnserved = FALSE
    /\ pirCoalesced = FALSE
    /\ pirWait = 0
    /\ stoppedThisCycle = FALSE
    /\ currentHumidity = INITIAL_HUMIDITY
    /\ temperatureDataValid = FALSE
    /\ temperatureQueue = <<>>
    /\ tempPc = "read"
    /\ tempData = NoTempData
    /\ motionQueue = [i \in 1..n |-> IdleReport]
    /\ currentBlinkRate = 0
    /\ motionActive = FALSE
    /\ ledState = FALSE
    /\ blinkingActive = FALSE
    /\ currentInterval = 0
    /\ lastBlinkTime = 0
    /\ alertLedPin = FALSE
    /\ queuesAllocated = [q \in QueueNames |-> TRUE]

InitBacklog == InitWithBacklog(IdleCycles)

NextBacklog ==
    \/ MotionFineStep
    \/ motionISR
    \/ stopButtonISR

SpecBacklog == InitBacklog /\ [][NextBacklog]_vars

\* alertLedTask on its own with the clock running: the commands the engine
\* can build arrive on alertQueue one at a time, and any time may pass
\* between two iterations of the task.
AlertCommands ==
    {alertData \in [blinkRate : 0..4, active : BOOLEAN, forceUpdate : BOOLEAN] :
        alertData.blinkRate > 0 => alertData.active}

\* Elapsed times between iterations of alertLedTask.
BlinkDelays == {FAST_BLINK_INTERVAL, SLOW_BLINK_INTERVAL}

\* xQueueSend(alertQueue, &alertData, 0) by the engine.
CommandArrives(alertData) ==
    /\ alertQueue = <<>>
    /\ xQueueSendReturns(alertQueue, ALERT_QUEUE_LENGTH, NO_WAIT)
    /\ alertQueue' = xQueueSend(alertQueue, alertData, ALERT_QUEUE_LENGTH)
    /\ UNCHANGED <<stoppedThisCycle, sampling, reporting, led,
                   queuesAllocated, lastBlinkTime>>
    /\ UNCHANGED <<now, pirTriggered, stopButtonPressed, lastPirTrigger,
                   motionPersistenceCounter, lastCounterUpdate,
                   alertSystemStopped, currentTemperature, ALERT_STOP_THRESHOLD,
                   thresholds, motionPc, currentTime, lastBlinkRate, observers>>

BlinkClock == \E d \in BlinkDelays : Tick(d)
EngineCommand == \E alertData \in AlertCommands : CommandArrives(alertData)

NextLed ==
    \/ BlinkClock
    \/ EngineCommand
    \/ alertLedTask

SpecLed == Init /\ [][NextLed]_vars

\* alertLedTask keeps being scheduled (vTaskDelay of 5 ms at priority 3) and
\* millis() keeps advancing.
FairLed == SpecLed /\ WF_vars(alertLedTask) /\ WF_vars(BlinkClock)

\* The earlier temperature-adjusted variant (Archive/dualcoreteest1/PIRTest).
\* Its motionDetectionTask has the loop body of the final one, except that
\* its three xQueueSend calls wait with portMAX_DELAY: each returns only
\* once the queue has room.
ArchiveStopCheck ==
    /\ motionPersistenceCounter > ALERT_STOP_THRESHOLD
          => xQueueSendReturns(alertQueue, ALERT_QUEUE_LENGTH, portMAX_DELAY)
    /\ MotionStopCheck

ArchiveReport ==
    /\ xQueueSendReturns(motionQueue, MOTION_QUEUE_LENGTH, portMAX_DELAY)
    /\ MotionReport

ArchiveCommand ==
    /\ xQueueSendReturns(alertQueue, ALERT_QUEUE_LENGTH, portMAX_DELAY)
    /\ MotionCommand

ArchiveStep ==
    \/ MotionSample
    \/ MotionStopTest
    \/ ArchiveStopCheck
    \/ MotionPirTest
    \/ MotionPirDrain
    \/ MotionDecay
    \/ MotionLevel
    \/ ArchiveReport
    \/ ArchiveCommand

\* The variant with consumers that take nothing, started with empty queues
\* or like SpecBacklog.
InitArchive == \E n \in {0, IdleCycles} : InitWithBacklog(n)

NextArchive ==
    \/ ArchiveStep
    \/ motionISR
    \/ stopButtonISR

SpecArchive == InitArchive /\ [][NextArchive]_vars

\* The engine and alertLedTask with the clock running and the LED task free
\* to lag behind the engine.  It starts between two engine cycles at
\* INITIAL_TEMPERATURE with the LED blinking at the counter's rate and
\* alertQueue holding the steady commands of the cycles the LED task has not
\* served yet: none, one, or as many as the queue takes.  With `pressed`,
\* stopButtonISR has set its flag and the counter is above the stop threshold.
StopCounters == {5, 6}
BacklogSizes == {0, 1, ALERT_QUEUE_LENGTH}

SteadyCommand(rate) ==
    [blinkRate |-> rate, active |-> TRUE, forceUpdate |-> FALSE]

InitBlinking(pressed, counters) ==
    /\ now = BootTime
    /\ pirTriggered = FALSE
    /\ stopButtonPressed = pressed
    /\ lastPirTrigger = BootTime
    /\ motionPersistenceCounter \in counters
    /\ lastCounterUpdate = BootTime
    /\ alertSystemStopped = FALSE
    /\ currentTemperature = INITIAL_TEMPERATURE
    /\ thresholds = calculateTemperatureAdjustedThresholds(currentTemperature)
    /\ ALERT_STOP_THRESHOLD = thresholds.stop
    /\ pressed => motionPersistenceCounter > ALERT_STOP_THRESHOLD
    /\ motionPc = "sample"
    /\ currentTime = 0
    /\ lastBlinkRate = calculateBlinkRate(motionPersistenceCounter, thresholds)
    /\ \E n \in BacklogSizes :
          alertQueue = [i \in 1..n |-> SteadyCommand(lastBlinkRate)]
    /\ pirUnserved = FALSE
    /\ pirCoalesced = FALSE
    /\ pirWait = 0
    /\ stoppedThisCycle = FALSE
    /\ currentHumidity = INITIAL_HUMIDITY
    /\ temperatureDataValid = FALSE
    /\ temperatureQueue = <<>>
    /\ tempPc = "read"
    /\ tempData = NoTempData
    /\ motionQueue = <<>>
    /\ currentBlinkRate = 0
    /\ motionActive = FALSE
    /\ ledState \in BOOLEAN
    /\ alertLedPin = ledState
    /\ blinkingActive = TRUE
    /\ currentInterval = getBlinkInterval(lastBlinkRate)
    /\ lastBlinkTime = BootTime
    /\ queuesAllocated = [q \in QueueNames |-> TRUE]

\* displayTask takes every report before the engine's next step.
StopEngine == motionQueue = <<>> /\ MotionFineStep
StopDisplay == motionQueue # <<>> /\ displayTask
StopClock == motionQueue = <<>> /\ Tick(SLOW_BLINK_INTERVAL)
StopLed == alertLedTask

NextStop ==
    \/ StopEngine
    \/ StopDisplay
    \/ StopClock
    \/ StopLed

\* motionDetectionTask (vTaskDelay of 20 ms, priority 2 on core 0) and
\* alertLedTask (vTaskDelay of 5 ms, priority 3 on core 1) keep being
\* scheduled, displayTask keeps taking the reports.
FairStop ==
    /\ InitBlinking(TRUE, StopCounters) /\ [][NextStop]_vars
    /\ WF_vars(StopEngine)
    /\ WF_vars(StopDisplay)
    /\ WF_vars(StopLed)

\* The same tasks with no stop press: the counter decays as time passes, the
\* level falls with it, and the LED task works through the commands.
ConvergeCounters == {4}

\* A decay interval passes between two engine cycles.
ConvergeClock == motionQueue = <<>> /\ Tick(COUNTER_UPDATE_INTERVAL)

NextConverge ==
    \/ StopEngine
    \/ StopDisplay
    \/ ConvergeClock
    \/ StopLed

FairConverge ==
    /\ InitBlinking(FALSE, ConvergeCounters) /\ [][NextConverge]_vars
    /\ WF_vars(StopEngine)
    /\ WF_vars(StopDisplay)
    /\ WF_vars(StopLed)

\* The program from setup() on.  Before the queues are created nothing
\* runs: the tasks do not exist and the interrupts are not attached.

InitBoot ==
    /\ now = BootTime
    /\ pirTriggered = FALSE
    /\ stopButtonPressed = FALSE
    /\ lastPirTrigger = 0
    /\ motionPersistenceCounter = 0
    /\ lastCounterUpdate = 0
    /\ alertSystemStopped = FALSE
    /\ currentTemperature = INITIAL_TEMPERATURE
    /\ ALERT_STOP_THRESHOLD = INITIAL_STOP_THRESHOLD
    /\ thresholds = NoThresholds
    /\ motionPc = "setup"
    /\ currentTime = 0
    /\ lastBlinkRate = 0
    /\ alertQueue = <<>>
    /\ pirUnserved = FALSE
    /\ pirCoalesced = FALSE
    /\ pirWait = 0
    /\ stoppedThisCycle = FALSE
    /\ currentHumidity = INITIAL_HUMIDITY
    /\ temperatureDataValid = FALSE
    /\ temperatureQueue = <<>>
    /\ tempPc = "setup"
    /\ tempData = NoTempData
    /\ motionQueue = <<>>
    /\ currentBlinkRate = 0
    /\ motionActive = FALSE
    /\ ledState = FALSE
    /\ blinkingActive = FALSE
    /\ currentInterval = 0
    /\ lastBlinkTime = 0
    /\ alertLedPin = FALSE
    /\ queuesAllocated = [q \in QueueNames |-> FALSE]

\* setup() from xQueueCreate on.  allocated[q] is whether xQueueCreate gave
\* queue q; `checked` is whether the NULL test is made.  With all queues
\* there the tasks are created (motionDetectionTask stores
\* lastCounterUpdate = millis() before its loop) and the interrupts attached.
SetupWith(allocated, checked) ==
    /\ motionPc = "setup"
    /\ queuesAllocated' = allocated
    /\ IF checked /\ \E q \in QueueNames : ~allocated[q]
       THEN /\ motionPc' = "aborted"
            /\ UNCHANGED <<tempPc, lastCounterUpdate>>
       ELSE /\ motionPc' = "sample"
            /\ tempPc' = "read"
            /\ lastCounterUpdate' = now
    /\ UNCHANGED <<now, pirTriggered, stopButtonPressed, lastPirTrigger,
                   motionPersistenceCounter, alertSystemStopped,
                   currentTemperature, ALERT_STOP_THRESHOLD, thresholds,
                   currentTime, lastBlinkRate, alertQueue, observers,
                   stoppedThisCycle, currentHumidity, temperatureDataValid,
                   temperatureQueue, tempData, reporting, led, lastBlinkTime>>

\* Mutant: setup() goes on after a failed xQueueCreate.
setupContinuesOnFailure(allocated) == SetupWith(allocated, FALSE)

setup(allocated) == SetupWith(allocated, TRUE)

TasksCreated == motionPc \notin {"setup", "aborted"}

Startup == \E allocated \in [QueueNames -> BOOLEAN] : setup(allocated)
Running == TasksCreated /\ NextReport
\* loop() is called whether or not setup() returned early.
LoopAfterAbort == motionPc = "aborted" /\ TemperatureCalc

NextBoot ==
    \/ Startup
    \/ Running
    \/ LoopAfterAbort

SpecBoot == InitBoot /\ [][NextBoot]_vars

\* ------------------------------------------------------------------ claims
\* The engine step that runs the 6-second block with the tick due.
DecayTick == motionPc = "decay" /\ motionPc' = "emit" /\ DecayDue

\* The engine step that decides on a drained stop flag.
StopDecision == motionPc = "stopCheck" /\ motionPc' = "pirTest"

\* The engine step that drains the motion flag.
PirDrainStep == motionPc = "pirDrain" /\ motionPc' = "decay"

\* C1: in every reachable state the persistence counter is within
\* 0..MAX_PERSISTENCE_COUNTER (20).
CounterInRange ==
    motionPersistenceCounter \in 0..MAX_PERSISTENCE_COUNTER

\* The counter has been driven to saturation by drained motion events.
CounterSaturated ==
    /\ motionPersistenceCounter = MAX_PERSISTENCE_COUNTER
    /\ motionPc = "decay"
    /\ lastCounterUpdate = currentTime
    /\ ~pirTriggered

\* C2: once the mode is STOPPED it eventually returns to ACTIVE, the engine
\* and the clock running on.
StoppedEventuallyRearms == alertSystemStopped ~> ~alertSystemStopped

\* C3: a stop press is flagged only while counter > ALERT_STOP_THRESHOLD
\* (so never while STOPPED), and a drained flag that the engine decides on
\* while counter <= ALERT_STOP_THRESHOLD leaves mode, counter and alertQueue
\* as they are.
StopInertWhenLow ==
    [][/\ (stopButtonPressed' /\ ~stopButtonPressed
              => motionPersistenceCounter > ALERT_STOP_THRESHOLD
                 /\ ~alertSystemStopped)
       /\ (StopDecision /\ motionPersistenceCounter <= ALERT_STOP_THRESHOLD
              => UNCHANGED <<alertSystemStopped, motionPersistenceCounter,
                             alertQueue>>)]_vars

\* The engine is deciding on a drained stop flag while the counter, still
\* positive, is no longer above the threshold.
StopDecisionWhileLow ==
    /\ motionPc = "stopCheck"
    /\ motionPersistenceCounter > 0
    /\ motionPersistenceCounter <= ALERT_STOP_THRESHOLD
    /\ ~alertSystemStopped

\* C4: every flagged press (flagged only when counter > ALERT_STOP_THRESHOLD
\* at press time) makes the engine's decision on it end in mode STOPPED and
\* counter 0.
ArmedPressIsHonored ==
    [][StopDecision
          => alertSystemStopped' /\ motionPersistenceCounter' = 0]_vars

\* C5: the mode goes from ACTIVE to STOPPED only in the engine's decision on
\* a drained stop flag, taken while counter > ALERT_STOP_THRESHOLD.
StoppedOnlyByArmedStop ==
    [][~alertSystemStopped /\ alertSystemStopped'
          => /\ StopDecision
             /\ motionPersistenceCounter > ALERT_STOP_THRESHOLD
             /\ motionPersistenceCounter' = 0]_vars

\* A stop has been honored.
StopHonored ==
    /\ alertSystemStopped
    /\ motionPc = "pirTest"
    /\ alertQueue = <<StopAlert>>

\* C6: every calculated threshold set has slow < medium < fast < critical,
\* slow >= 1, medium >= 2, fast >= 3, critical >= 4 and stop >= 2.
ThresholdsOrderedAndFloored ==
    thresholds.called
        => /\ thresholds.slow < thresholds.medium
           /\ thresholds.medium < thresholds.fast
           /\ thresholds.fast < thresholds.critical
           /\ thresholds.slow >= 1
           /\ thresholds.medium >= 2
           /\ thresholds.fast >= 3
           /\ thresholds.critical >= 4
           /\ thresholds.stop >= 2
           /\ ALERT_STOP_THRESHOLD = thresholds.stop

\* A threshold set calculated in the interpolation zone, below the base values.
InterpolatedThresholds ==
    /\ thresholds.called
    /\ thresholds.temperature > COMFORTABLE_TEMP
    /\ thresholds.temperature < HOT_TEMP_THRESHOLD
    /\ thresholds.slow < BASE_SLOW_BLINK_COUNTER

ThresholdTuple(th) == <<th.slow, th.medium, th.fast, th.critical, th.stop>>

QuietDecay ==
    [][/\ (DecayTick /\ ~alertSystemStopped
              => motionPersistenceCounter'
                    = Max(motionPersistenceCounter - 1, 0))
       /\ (motionPc = "decay" /\ ~DecayDue
              => motionPersistenceCounter' = motionPersistenceCounter)
       /\ motionPersistenceCounter' <= motionPersistenceCounter
       /\ (motionPersistenceCounter = 0 => motionPersistenceCounter' = 0)]_vars

\* The counter has decayed to 0 in ACTIVE mode, the last tick just taken.
DecayedToZero ==
    /\ motionPersistenceCounter = 0
    /\ ~alertSystemStopped
    /\ motionPc = "emit"
    /\ lastCounterUpdate = currentTime

\* C9: at every decay tick the counter is left unchanged if a motion event
\* was recorded less than 5500 ms before the tick, and becomes
\* max(counter - 1, 0) otherwise.
TickHoldsIffRecentMotion ==
    [][DecayTick
          => motionPersistenceCounter'
                = IF lastPirTrigger > currentTime - PIR_DETECTION_WINDOW
                  THEN motionPersistenceCounter
                  ELSE Max(motionPersistenceCounter - 1, 0)]_vars

\* C10 as stated: a firing made in ACTIVE mode never waits past the end of
\* the engine cycle after the one it fell into.
MotionCountedByNextCycle == pirWait < 2

\* C10 as amended: such a firing waits past the end of the next cycle only
\* when the mode is STOPPED, and a drain, however many firings it serves,
\* clears the flag and adds exactly one to the counter (none at 20).
MotionCountedUnlessStopped ==
    [][/\ (pirWait' = 2 => alertSystemStopped')
       /\ (PirDrainStep
              => /\ ~pirTriggered'
                 /\ ~pirUnserved'
                 /\ motionPersistenceCounter'
                       = Min(motionPersistenceCounter + 1,
                             MAX_PERSISTENCE_COUNTER))]_vars

\* Two or more firings have just been drained as one increment from 0.
CoalescedDrain ==
    /\ pirCoalesced
    /\ ~pirUnserved
    /\ ~pirTriggered
    /\ motionPc = "decay"
    /\ motionPersistenceCounter = 1

Last(queue) == queue[Len(queue)]

\* C11 as stated: after every send of the engine the item just sent is the
\* newest item of its queue, whether or not the queue was full.
SendKeepsNewest ==
    [][/\ (motionPc = "report" /\ motionPc' = "command"
              => /\ motionQueue' # <<>>
                 /\ Last(motionQueue').persistenceCounter
                       = motionPersistenceCounter
                 /\ Last(motionQueue').alertLevel = currentBlinkRate
                 /\ Last(motionQueue').alertSystemStopped = alertSystemStopped)
       /\ (motionPc = "command" /\ motionPc' = "sample"
              => /\ alertQueue' # <<>>
                 /\ Last(alertQueue').blinkRate = currentBlinkRate
                 /\ Last(alertQueue').active
                       = (motionActive /\ ~alertSystemStopped))]_vars

\* C12: the engine can always take its next step: no send keeps it waiting,
\* however full motionQueue and alertQueue are.
EngineNeverBlocked == ENABLED MotionFineStep

\* A cycle has run to its end on full queues and its command was dropped.
CycleEndedOnFullQueues ==
    /\ Len(motionQueue) = MOTION_QUEUE_LENGTH
    /\ Len(alertQueue) = ALERT_QUEUE_LENGTH
    /\ motionPc = "sample"
    /\ Last(alertQueue).blinkRate # lastBlinkRate

\* C13: motionPersistenceCounter and alertSystemStopped are written by
\* motionDetectionTask alone: every step of temperatureTask, alertLedTask,
\* displayTask, loop(), motionISR and stopButtonISR leaves both as they are,
\* and both change only in a step of the engine.
SingleWriter ==
    [][/\ (\/ TemperatureStep
           \/ alertLedTask
           \/ displayTask
           \/ TemperatureCalc
           \/ motionISR
           \/ stopButtonISR)
              => UNCHANGED <<motionPersistenceCounter, alertSystemStopped>>
       /\ (~UNCHANGED <<motionPersistenceCounter, alertSystemStopped>>
              => motionPc' # motionPc)]_vars

\* The sampler and both handlers have run inside an engine cycle that holds
\* a counter the stop button is armed at.
OthersRanBesideCounter ==
    /\ motionPersistenceCounter > ALERT_STOP_THRESHOLD
    /\ motionPc = "report"
    /\ tempPc = "humidity"
    /\ pirTriggered
    /\ stopButtonPressed

\* The step of temperatureTask in which a due read has failed (status != 0).
FailedRead == tempPc = "read" /\ tempPc' = "calc" /\ tempData' # tempData

\* C14: a failed sensor read leaves currentTemperature and currentHumidity
\* as they are and sends nothing to temperatureQueue; currentTemperature
\* changes only in a successful read, so the thresholds and the level worked
\* out afterwards are those of the last valid sample.
FailedReadKeepsLastSample ==
    [][/\ (FailedRead
              => /\ ~tempData'.validReading
                 /\ UNCHANGED <<currentTemperature, currentHumidity,
                                temperatureDataValid, temperatureQueue>>)
       /\ (currentTemperature' # currentTemperature
              => /\ tempPc = "read"
                 /\ tempPc' = "humidity"
                 /\ tempData'.validReading
                 /\ currentTemperature' = tempData'.temperature)
       /\ (tempPc = "calc" /\ tempPc' = "read"
              => thresholds'
                    = calculateTemperatureAdjustedThresholds(currentTemperature))
       /\ (motionPc = "emit" /\ motionPc' = "report" /\ ~alertSystemStopped
              => currentBlinkRate'
                    = calculateBlinkRate(
                          motionPersistenceCounter,
                          calculateTemperatureAdjustedThresholds(
                              currentTemperature)))]_vars

\* A read has just failed after a sample of 35.0 C was stored, and the engine
\* has worked out its level from the thresholds of 35.0 C.
ReadFailedAfterHotSample ==
    /\ tempPc = "calc"
    /\ ~tempData.validReading
    /\ tempData.timestamp = now
    /\ temperatureDataValid
    /\ currentTemperature = CRITICAL_TEMP_THRESHOLD
    /\ currentHumidity = SampleHumidity(CRITICAL_TEMP_THRESHOLD)
    /\ thresholds.called
    /\ thresholds.temperature = CRITICAL_TEMP_THRESHOLD
    /\ motionPc = "report"
    /\ currentBlinkRate = 4

\* The pairs a report may carry if it is never torn: those of the sensor's
\* samples, and the initial values of the two globals.
WholeSamples ==
    {<<sample.temperature, sample.humidity>> : sample \in SensorSamples}
        \cup {<<INITIAL_TEMPERATURE, INITIAL_HUMIDITY>>}

\* C15 as stated: the temperature and the humidity of every report sent to
\* motionQueue belong to one sensor sample, or are both the initial values.
NoTornSample ==
    \A i \in DOMAIN motionQueue :
        <<motionQueue[i].temperature, motionQueue[i].humidity>> \in WholeSamples

\* The level that the thresholds of a report's own temperature give its counter.
LevelOfReport(report) ==
    calculateBlinkRate(
        report.persistenceCounter,
        calculateTemperatureAdjustedThresholds(report.temperature))

\* C16 as stated: every report sent in ACTIVE mode carries the level that
\* the thresholds of its own temperature give its own counter, and the
\* command of the same cycle carries the report's level as its blinkRate,
\* whatever temperatureTask does in between.
ReportIsOneSnapshot ==
    [][/\ (motionPc = "report" /\ motionPc' = "command" /\ ~alertSystemStopped
              => /\ Last(motionQueue').alertLevel
                       = LevelOfReport(Last(motionQueue'))
                 /\ Last(motionQueue').alertLevel = currentBlinkRate)
       /\ (motionPc = "command" /\ motionPc' = "command"
              => currentBlinkRate' = currentBlinkRate)
       /\ (motionPc = "command" /\ motionPc' = "sample"
              => Last(alertQueue').blinkRate = currentBlinkRate)]_vars

\* The engine step that sends the per-cycle command.
CommandStep == motionPc = "command" /\ motionPc' = "sample"

\* C17 as stated: the per-cycle command has forceUpdate true exactly when the
\* level differs from the level of the previous cycle or the mode changed to
\* STOPPED in this cycle, and false in every other cycle, later STOPPED
\* cycles with an unchanged level included.
ForceUpdateOnChangeOnly ==
    [][CommandStep
          => Last(alertQueue').forceUpdate
                = ((currentBlinkRate # lastBlinkRate) \/ stoppedThisCycle)]_vars

\* C17 as amended: the per-cycle command has forceUpdate true exactly when
\* the level differs from the level of the previous cycle or the mode is
\* STOPPED when the command is built, so in every cycle spent in STOPPED; the
\* level of the cycle is then kept as the previous level of the next.
ForceUpdateOnChangeOrStopped ==
    [][CommandStep
          => /\ Last(alertQueue').forceUpdate
                   = ((currentBlinkRate # lastBlinkRate) \/ alertSystemStopped)
             /\ Last(alertQueue').blinkRate = currentBlinkRate
             /\ lastBlinkRate' = currentBlinkRate]_vars

\* A cycle spent in STOPPED, later than the one of the stop and with the
\* level unchanged at 0, has sent its command with forceUpdate set.
ForcedInLaterStoppedCycle ==
    /\ motionPc = "sample"
    /\ alertSystemStopped
    /\ ~stoppedThisCycle
    /\ lastBlinkRate = 0
    /\ alertQueue = <<[blinkRate |-> 0, active |-> FALSE, forceUpdate |-> TRUE]>>

\* C18: the engine's decision to honor a stop sends {blinkRate 0, active
\* false, forceUpdate true} to alertQueue in that step, with mode STOPPED and
\* counter 0, and the per-cycle command sent later in the same cycle has
\* blinkRate 0 and active false as well.
StopSendsImmediateCommand ==
    [][/\ (StopDecision /\ motionPersistenceCounter > ALERT_STOP_THRESHOLD
              => /\ alertQueue'
                       = Append(alertQueue,
                                [blinkRate   |-> 0,
                                 active      |-> FALSE,
                                 forceUpdate |-> TRUE])
                 /\ alertSystemStopped'
                 /\ motionPersistenceCounter' = 0
                 /\ stoppedThisCycle')
       /\ (CommandStep /\ stoppedThisCycle
              => /\ Last(alertQueue').blinkRate = 0
                 /\ ~Last(alertQueue').active)]_vars

\* A stop has just been honored at 35.0 C (stop threshold 2) in a cycle
\* that follows one at level CRITICAL.
StopHonoredAtCritical ==
    /\ motionPc = "pirTest"
    /\ stoppedThisCycle
    /\ alertSystemStopped
    /\ motionPersistenceCounter = 0
    /\ currentTemperature = CRITICAL_TEMP_THRESHOLD
    /\ ALERT_STOP_THRESHOLD = 2
    /\ lastBlinkRate = 4
    /\ alertQueue = <<StopAlert>>

\* The threshold of tier k (1 slow, 2 medium, 3 fast, 4 critical).
TierThreshold(th, k) ==
    CASE k = 1 -> th.slow
      [] k = 2 -> th.medium
      [] k = 3 -> th.fast
      [] k = 4 -> th.critical

\* The highest tier whose threshold the counter has reached, 0 if none.
HighestTier(counter, th) ==
    LET reached == {k \in 1..4 : TierThreshold(th, k) <= counter}
    IN  IF reached = {} THEN 0
        ELSE CHOOSE k \in reached : \A j \in reached : j <= k

\* C19: the level the engine works out in ACTIVE mode is the highest tier
\* whose threshold, calculated for the current temperature, is <= counter
\* (0 if there is none); in STOPPED mode it is 0.
LevelIsHighestTierReached ==
    [][motionPc = "emit" /\ motionPc' = "report"
          => currentBlinkRate'
                = IF alertSystemStopped THEN 0
                  ELSE HighestTier(
                           motionPersistenceCounter,
                           calculateTemperatureAdjustedThresholds(
                               currentTemperature))]_vars

\* The level has been worked out as MEDIUM for a counter that is exactly the
\* medium threshold of 35.0 C.
LevelAtMediumThreshold ==
    /\ motionPc = "report"
    /\ ~alertSystemStopped
    /\ currentTemperature = CRITICAL_TEMP_THRESHOLD
    /\ thresholds.temperature = CRITICAL_TEMP_THRESHOLD
    /\ motionPersistenceCounter = thresholds.medium
    /\ currentBlinkRate = 2

\* The command alertLedTask is about to receive turns the alert on.
OnCommandQueued ==
    /\ alertQueue # <<>>
    /\ Head(alertQueue).active
    /\ Head(alertQueue).blinkRate > 0

\* C20: an iteration of alertLedTask that receives a command with active
\* false or blinkRate 0 ends with the LED pin low, ledState false and
\* blinking disabled; while blinking is disabled the pin stays low, and
\* blinking is enabled again only by an iteration that receives a command
\* with active true and blinkRate > 0.
OffCommandTurnsLedOff ==
    [][/\ (alertQueue # <<>> /\ ~OnCommandQueued /\ alertQueue' = Tail(alertQueue)
              => ~alertLedPin' /\ ~ledState' /\ ~blinkingActive')
       /\ (~blinkingActive' => ~alertLedPin' /\ ~ledState')
       /\ (~blinkingActive /\ blinkingActive'
              => OnCommandQueued /\ alertQueue' = Tail(alertQueue))]_vars

\* An off command has been processed at the clock reading at which the LED,
\* blinking at the CRITICAL interval, was last switched.
LedSwitchedOffWhileBlinking ==
    /\ alertQueue = <<>>
    /\ ~blinkingActive
    /\ ~alertLedPin
    /\ ~ledState
    /\ currentInterval = CRITICAL_BLINK_INTERVAL
    /\ lastBlinkTime = now

\* The step of alertLedTask in which the blink handling switches the LED.
BlinkToggle == ledState' # ledState /\ blinkingActive'

\* C21: the LED is switched by the blink handling only when at least the
\* current interval has passed since lastBlinkTime (the last switch or
\* resync), and if from some point on no command arrives while blinking is
\* enabled, the LED is on infinitely often and off infinitely often.
LedFreeRunning ==
    /\ [][BlinkToggle
             => /\ currentInterval' > 0
                /\ GeU32(Sub32(now, lastBlinkTime), currentInterval')
                /\ alertLedPin' = ledState'
                /\ lastBlinkTime' = now]_vars
    /\ (<>[](alertQueue = <<>> /\ blinkingActive)
           => ([]<>alertLedPin /\ []<>~alertLedPin))

\* The LED, blinking at the SLOW interval with no command queued, has just
\* been switched on.
LedSwitchedOnBlinking ==
    /\ alertQueue = <<>>
    /\ blinkingActive
    /\ currentInterval = SLOW_BLINK_INTERVAL
    /\ alertLedPin
    /\ ledState
    /\ lastBlinkTime = now

\* C22: once setup() has returned on a failed xQueueCreate, no task exists
\* and no interrupt is attached: the engine's position never changes, the
\* counter stays 0, the mode ACTIVE, no interrupt flag is set and nothing is
\* ever sent to motionQueue, alertQueue or temperatureQueue.
StartupAbortsOnQueueFailure ==
    [][motionPc' # "setup" /\ (\E q \in QueueNames : ~queuesAllocated'[q])
          => /\ motionPc' = "aborted"
             /\ motionPc = "setup" \/ motionPc = "aborted"
             /\ tempPc' = "setup"
             /\ motionPersistenceCounter' = 0
             /\ ~alertSystemStopped'
             /\ ~pirTriggered'
             /\ ~stopButtonPressed'
             /\ motionQueue' = <<>>
             /\ alertQueue' = <<>>
             /\ temperatureQueue' = <<>>
             /\ ~alertLedPin']_vars

\* setup() has returned on a failed xQueueCreate and loop() has since made
\* its status calculation.
AbortedAndLooping ==
    /\ motionPc = "aborted"
    /\ ~queuesAllocated["alertQueue"]
    /\ queuesAllocated["motionQueue"]
    /\ tempPc = "setup"
    /\ thresholds.called
    /\ motionPersistenceCounter = 0
    /\ ~alertSystemStopped

\* The factor of the reference model as an exact fraction of the
\* temperature in tenths of a degree.
ReferenceFactor(temperature) ==
    IF temperature >= 350 THEN [num |-> 3, den |-> 10]
    ELSE IF temperature >= 300 THEN [num |-> 5, den |-> 10]
    ELSE IF temperature > 220
         THEN [num |-> 160 - (temperature - 220), den |-> 160]
    ELSE [num |-> 1, den |-> 1]

\* Base times factor, truncated toward zero and raised to its floor.
ReferenceThreshold(base, floor, f) == Max((base * f.num) \div f.den, floor)

ReferenceThresholds(temperature) ==
    LET f == ReferenceFactor(temperature)
    IN  <<ReferenceThreshold(5, 1, f), ReferenceThreshold(8, 2, f),
          ReferenceThreshold(12, 3, f), ReferenceThreshold(16, 4, f),
          ReferenceThreshold(5, 2, f)>>

\* C23 as stated: for every temperature of the grid the calculator gives
\* the thresholds of the reference model.
CalculatorMatchesReference ==
    thresholds.called
        => ThresholdTuple(thresholds)
              = ReferenceThresholds(thresholds.temperature)

\* C24: a drain in ACTIVE mode clears the flag, takes the counter to
\* min(counter + 1, 20) and sets lastCounterUpdate to the cycle time, so
\* that the tick is not due after it; nothing makes the tick due before the
\* cycle reaches its 6-second block, which leaves the counter alone unless
\* 6000 ms have passed since lastCounterUpdate; and the engine sets
\* lastCounterUpdate to nothing but the cycle time.  A drain and a decrement
\* therefore never fall into one cycle, nor a decrement into the 6000 ms
\* after a drain.
DrainRestartsDecayWindow ==
    [][/\ (PirDrainStep
              => /\ ~alertSystemStopped
                 /\ ~pirTriggered'
                 /\ motionPersistenceCounter'
                       = Min(motionPersistenceCounter + 1,
                             MAX_PERSISTENCE_COUNTER)
                 /\ lastCounterUpdate' = currentTime
                 /\ ~DecayDue')
       /\ (motionPc = "decay" /\ motionPc' = "decay" /\ ~DecayDue => ~DecayDue')
       /\ (motionPc = "decay" /\ motionPc' = "emit"
              => IF DecayDue
                 THEN /\ motionPersistenceCounter'
                            \in {motionPersistenceCounter,
                                 motionPersistenceCounter - 1}
                      /\ lastCounterUpdate' = currentTime
                 ELSE UNCHANGED <<motionPersistenceCounter, lastCounterUpdate>>)
       /\ (motionPersistenceCounter' < motionPersistenceCounter
              => motionPc = "decay" \/ motionPc = "stopCheck")
       /\ (motionPc' # motionPc
              => lastCounterUpdate' \in {lastCounterUpdate, currentTime})]_vars

\* A motion flag has just been drained in a cycle that began more than
\* 6000 ms after the previous drain or tick, and time has passed since.
DrainedWhenTickWasDue ==
    /\ motionPc = "decay"
    /\ ~alertSystemStopped
    /\ ~pirTriggered
    /\ ~pirUnserved
    /\ motionPersistenceCounter = 2
    /\ lastCounterUpdate = currentTime
    /\ lastPirTrigger < currentTime
    /\ currentTime < now

\* C25: the mode goes from STOPPED to ACTIVE in no step but a decay tick
\* that takes the counter from 1 to 0; motion interrupts, stop presses,
\* temperature updates and ticks that do not decrement leave a STOPPED mode
\* STOPPED.
RearmOnlyByDecayToZero ==
    [][alertSystemStopped /\ ~alertSystemStopped'
          => /\ DecayTick
             /\ motionPersistenceCounter = 1
             /\ motionPersistenceCounter' = 0]_vars

\* The mode is still STOPPED after a motion interrupt, a temperature update
\* to 35.0 C and a tick that found nothing to decrement.
StillStoppedAfterIdleTick ==
    /\ alertSystemStopped
    /\ motionPc = "emit"
    /\ lastCounterUpdate = currentTime
    /\ motionPersistenceCounter = 0
    /\ pirTriggered
    /\ currentTemperature = CRITICAL_TEMP_THRESHOLD
    /\ thresholds.temperature = CRITICAL_TEMP_THRESHOLD
    /\ alertQueue = <<>>

\* The stop threshold that the calculator derives from currentTemperature.
DerivedStopThreshold ==
    calculateTemperatureAdjustedThresholds(currentTemperature).stop

\* C26 as stated: in every state in which the stop gate can be evaluated
\* (stopButtonISR can fire in any state once attached, the engine decides at
\* its stop check), ALERT_STOP_THRESHOLD is the stop threshold derived from
\* currentTemperature, from the initial state on.
StopGateUsesCurrentThreshold ==
    TasksCreated => ALERT_STOP_THRESHOLD = DerivedStopThreshold

\* The interval the specification gives for each blink rate, in ms.
IntervalOfRate == [r \in 1..4 |-> <<1000, 500, 200, 100>>[r]]

\* The command alertLedTask is about to receive turns the alert on and asks
\* for a resync (forceUpdate) or not.
OnCommandForced(forceUpdate) ==
    OnCommandQueued /\ Head(alertQueue).forceUpdate = forceUpdate

\* C27: the blink handling switches the LED only when blinking is enabled
\* and at least the interval of the current rate (1000, 500, 200, 100 ms
\* for rates 1..4) has passed since lastBlinkTime; an iteration that
\* receives an on command with forceUpdate true ends with lastBlinkTime =
\* now and ledState as it was; one that receives an on command with
\* forceUpdate false takes the interval of the command's rate, and the
\* command leaves lastBlinkTime and ledState to the blink handling, which
\* changes them only if that interval has passed since the old lastBlinkTime.
LedTogglesOnInterval ==
    [][/\ BlinkToggle
             => /\ \E r \in 1..4 : currentInterval' = IntervalOfRate[r]
                /\ GeU32(Sub32(now, lastBlinkTime), currentInterval')
                /\ ~OnCommandForced(TRUE)
       /\ OnCommandQueued /\ alertQueue' = Tail(alertQueue)
             => /\ currentInterval' = IntervalOfRate[Head(alertQueue).blinkRate]
                /\ blinkingActive'
       /\ OnCommandForced(TRUE) /\ alertQueue' = Tail(alertQueue)
             => lastBlinkTime' = now /\ ledState' = ledState
       /\ OnCommandForced(FALSE) /\ alertQueue' = Tail(alertQueue)
             => IF GeU32(Sub32(now, lastBlinkTime), currentInterval')
                THEN ledState' = ~ledState /\ lastBlinkTime' = now
                ELSE ledState' = ledState /\ lastBlinkTime' = lastBlinkTime]_vars

\* The LED was switched on FAST_BLINK_INTERVAL ms ago and blinks at the
\* SLOW interval with its phase kept: no resync happened since the switch.
SlowIntervalKeepsPhase ==
    /\ alertQueue = <<>>
    /\ blinkingActive
    /\ currentInterval = SLOW_BLINK_INTERVAL
    /\ ledState
    /\ alertLedPin
    /\ lastBlinkTime > 0
    /\ Sub32(now, lastBlinkTime) = FAST_BLINK_INTERVAL

\* The position of each step of motionDetectionTask's loop body.
StepOrder ==
    [sample |-> 0, stopTest |-> 1, stopCheck |-> 2, pirTest |-> 3,
     pirDrain |-> 4, decay |-> 5, emit |-> 6, report |-> 7, command |-> 8]

\* C28: the engine goes through stop flag, motion flag, decay check, level
\* computation, report send and command send in this order and starts over
\* only after the command send; from the step that honors a stop to the end
\* of that cycle the counter is 0 and the mode STOPPED, the motion-flag
\* step of that cycle does not enter the drain whether or not pirTriggered
\* is set, and the report sent in that cycle shows counter 0,
\* alertSystemStopped true and alertLevel 0.
CycleOrderStopBeforeMotion ==
    [][/\ motionPc' # motionPc
             => \/ StepOrder[motionPc'] > StepOrder[motionPc]
                \/ motionPc = "command" /\ motionPc' = "sample"
       /\ stoppedThisCycle'
             => motionPersistenceCounter' = 0 /\ alertSystemStopped'
       /\ motionPc = "pirTest" /\ motionPc' # motionPc /\ stoppedThisCycle
             => motionPc' = "decay" /\ pirTriggered' = pirTriggered
       /\ stoppedThisCycle /\ Len(motionQueue') > Len(motionQueue)
             => /\ motionPc = "report"
                /\ Last(motionQueue').persistenceCounter = 0
                /\ Last(motionQueue').alertSystemStopped
                /\ Last(motionQueue').alertLevel = 0]_vars

\* The report of a cycle that honored a stop has just been sent, with a
\* PIR firing of the cycle before still flagged and uncounted.
StopReportWithMotionPending ==
    /\ motionPc = "command"
    /\ stoppedThisCycle
    /\ pirTriggered
    /\ pirWait >= 1
    /\ motionQueue # <<>>
    /\ Last(motionQueue).persistenceCounter = 0
    /\ Last(motionQueue).alertSystemStopped
    /\ Last(motionQueue).alertLevel = 0
    /\ Last(motionQueue).message = "ALERT STOPPED"

\* C29: once a stop has been honored, from some point on the alert LED is
\* off for good (the mode then remains STOPPED), whatever alertQueue held
\* at the moment of the stop and whether or not it took the stop command.
StopTurnsLedOff ==
    /\ [](alertSystemStopped => <>[](alertSystemStopped => ~alertLedPin))
    /\ [][alertSystemStopped => alertSystemStopped']_vars

\* A stop has just been honored with the LED lit and alertQueue full of
\* older active commands: the stop command was dropped.
StopCommandDroppedLedLit ==
    /\ motionPc = "pirTest"
    /\ stoppedThisCycle
    /\ alertSystemStopped
    /\ alertLedPin
    /\ blinkingActive
    /\ Len(alertQueue) = ALERT_QUEUE_LENGTH
    /\ \A i \in 1..Len(alertQueue) : alertQueue[i].active

\* The engine's next step is a queue send that cannot return yet.
EngineWaitsForConsumer ==
    \/ /\ motionPc = "stopCheck"
       /\ motionPersistenceCounter > ALERT_STOP_THRESHOLD
       /\ ~xQueueSendReturns(alertQueue, ALERT_QUEUE_LENGTH, portMAX_DELAY)
    \/ /\ motionPc = "report"
       /\ ~xQueueSendReturns(motionQueue, MOTION_QUEUE_LENGTH, portMAX_DELAY)
    \/ /\ motionPc = "command"
       /\ ~xQueueSendReturns(alertQueue, ALERT_QUEUE_LENGTH, portMAX_DELAY)

\* C30 as stated: in the earlier temperature-adjusted variant the engine is
\* never held at a queue send: whatever the fill of motionQueue and
\* alertQueue, its next step can be taken without a consumer dequeuing.
ArchiveEngineNeverStalls == ~EngineWaitsForConsumer /\ ENABLED ArchiveStep

\* C31: at every cycle boundary, and in fact in every state, the mode
\* STOPPED comes with a counter of 0; while the mode is STOPPED no step
\* changes the counter, and a motion flag that is set stays set.
StoppedMeansCounterZero ==
    /\ [](alertSystemStopped => motionPersistenceCounter = 0)
    /\ [][alertSystemStopped
             => /\ motionPersistenceCounter' = motionPersistenceCounter
                /\ pirTriggered => pirTriggered']_vars

\* Between two cycles in STOPPED mode, with a motion flag that has been
\* pending over two cycle ends, uncounted and not cleared.
StoppedWithFlagPending ==
    /\ motionPc = "sample"
    /\ alertSystemStopped
    /\ pirWait = 2
    /\ pirTriggered
    /\ motionPersistenceCounter = 0

\* C32: with motionISR firing only between engine cycles, a decay tick that
\* comes due in ACTIVE mode finds the PIR silent for the detection window
\* (lastPirTrigger <= currentTime and currentTime - lastPirTrigger >= 5500),
\* so it decrements a positive counter and never takes the 'PIR active,
\* counter maintained' branch.
ActiveTickFindsPirSilent ==
    [][DecayTick /\ ~alertSystemStopped
          => /\ lastPirTrigger <= currentTime
             /\ currentTime - lastPirTrigger >= PIR_DETECTION_WINDOW
             /\ PirSilent
             /\ motionPersistenceCounter > 0
                   => motionPersistenceCounter' = motionPersistenceCounter - 1]_vars

\* In ACTIVE mode a tick has just taken the counter from 1 to 0: the motion
\* that had raised it was recorded within the last MaxTime ms.
ActiveTickDecrementedToZero ==
    /\ motionPc = "emit"
    /\ ~alertSystemStopped
    /\ motionPersistenceCounter = 0
    /\ lastCounterUpdate = currentTime
    /\ lastPirTrigger > 0
    /\ ~pirTriggered

\* C33: the level calculateBlinkRate gives with a calculated threshold set
\* never falls when the counter rises by one, and the set calculated for a
\* sample at least as hot gives every counter a level at least as high.
LevelMonotone ==
    thresholds.called
        => /\ \A c \in 0..(MAX_PERSISTENCE_COUNTER - 1) :
                 calculateBlinkRate(c, thresholds)
                    <= calculateBlinkRate(c + 1, thresholds)
           /\ currentTemperature >= thresholds.temperature
                 => \A c \in 0..MAX_PERSISTENCE_COUNTER :
                       calculateBlinkRate(c, thresholds)
                          <= calculateBlinkRate(c,
                                calculateTemperatureAdjustedThresholds(
                                    currentTemperature))

\* Thresholds calculated at 22.0 C, where a counter of 4 has level 0, with
\* a sample of 35.0 C stored, at which the same counter has level 4.
HotterSampleRaisesLevel ==
    /\ thresholds.called
    /\ thresholds.temperature = COMFORTABLE_TEMP
    /\ currentTemperature = CRITICAL_TEMP_THRESHOLD
    /\ calculateBlinkRate(4, thresholds) = 0
    /\ calculateBlinkRate(4, calculateTemperatureAdjustedThresholds(
                                 currentTemperature)) = 4

\* C34: every calculated threshold set has stop >= slow, ALERT_STOP_THRESHOLD
\* is the set's stop threshold, and every counter above it has a level of
\* at least 1 under the same set.
StopThresholdAtLeastSlow ==
    thresholds.called
        => /\ thresholds.stop >= thresholds.slow
           /\ ALERT_STOP_THRESHOLD = thresholds.stop
           /\ \A c \in 0..MAX_PERSISTENCE_COUNTER :
                 c > ALERT_STOP_THRESHOLD
                    => calculateBlinkRate(c, thresholds) >= 1

\* Thresholds calculated at 35.0 C: the stop threshold 2 is above the slow
\* threshold 1, and a counter of 3 passes the stop gate at level 3.
StopAboveSlowAtCritical ==
    /\ thresholds.called
    /\ thresholds.temperature = CRITICAL_TEMP_THRESHOLD
    /\ thresholds.stop > thresholds.slow
    /\ 3 > ALERT_STOP_THRESHOLD
    /\ calculateBlinkRate(3, thresholds) = 3

\* C35: every command the engine puts on alertQueue has blinkRate in 0..4,
\* has active true exactly when the counter is at least 1 and the mode is
\* ACTIVE, and has a blinkRate above 0 only with active true.
CommandWellFormed ==
    [][Len(alertQueue') > Len(alertQueue)
          => LET alertData == Last(alertQueue')
             IN  /\ alertData.blinkRate \in 0..4
                 /\ alertData.active
                       = (/\ motionPersistenceCounter' >= 1
                          /\ ~alertSystemStopped')
                 /\ alertData.blinkRate > 0 => alertData.active]_vars

\* The engine has just sent a command with active true and blinkRate 0: the
\* counter is at least 1 and below the slow threshold.
ActiveCommandBelowSlow ==
    /\ motionPc = "sample"
    /\ alertQueue # <<>>
    /\ Last(alertQueue).active
    /\ Last(alertQueue).blinkRate = 0
    /\ motionPersistenceCounter >= 1
    /\ ~alertSystemStopped

\* alertLedTask operates at level L: blinking at the interval of L, or not
\* blinking with the LED off when L is 0.
LedAt(L) ==
    IF L > 0
    THEN blinkingActive /\ currentInterval = IntervalOfRate[L]
    ELSE ~blinkingActive /\ ~alertLedPin

DecayDifferenceNeverWraps ==
    motionPc = "decay" /\ DecayDue => lastPirTrigger <= currentTime

\* C39: between two iterations of alertLedTask a lit ledState means the
\* task is blinking at one of the four intervals.
LitOnlyWhileBlinking ==
    ledState =>
        /\ blinkingActive
        /\ currentInterval \in {IntervalOfRate[r] : r \in 1..4}

\* The LED is lit at the critical interval.
LitAtCriticalInterval ==
    /\ ledState
    /\ alertLedPin
    /\ blinkingActive
    /\ currentInterval = CRITICAL_BLINK_INTERVAL

====
